---- MODULE Spec2Model ----
(***************************************************************************)
(* The booking ledger of scripts_empresas/empresa1/agenda.py: a            *)
(* spreadsheet file that every operation loads into a private frame,       *)
(* changes, and writes back whole.  Each load and each save of the file is *)
(* one step, so that handlers can be run one at a time (Spec) or           *)
(* interleaved (SpecConc).                                                 *)
(***************************************************************************)
EXTENDS Integers, Sequences, FiniteSets, TLC

VARIABLES
    ledger,     \* the rows of PLANILHA_PATH, in file order
    now,        \* the wall clock (_now), in ticks
    proc,       \* per handler: position, arguments, private frames, result
    req,        \* the webhook request in flight: position, inputs, results
    fluxo_usuario   \* app.py fluxo_usuario: per tenant, per chat, the flow state

vars == <<ledger, now, proc, req, fluxo_usuario>>
web == <<req, fluxo_usuario>>

----------------------------------------------------------------------------
(* Bounds of the model *)

MaxRows == 2        \* rows a frame may hold before a reserve is refused by the model
MaxIds == 2         \* size of the AgendamentoID space
NumSlots == 2       \* how many of BLOCOS_HORARIOS are used
NumDates == 1       \* how many calendar days are used
MaxMin == 2         \* clock horizon, in minutes
MaxOff == 1         \* ticks sampled after each whole minute
TicksPerSec == 2    \* clock resolution: ticks per second
NumProcs == 2       \* concurrently running handlers in SpecConc
MaxStr == 3         \* longest identifier given to _normalize_chat_id
MaxPilha == 3       \* deepest stage stack the model follows

(* Program constants *)

SecPerMin == 60     \* timedelta(minutes = ttl_min)

----------------------------------------------------------------------------
(* Values *)

None == -1

Ids == 1..MaxIds
BLOCOS_HORARIOS == 1..NumSlots
Dates == 1..NumDates
Procs == 1..NumProcs

Instants == { m * SecPerMin * TicksPerSec + o : m \in 0..MaxMin, o \in 0..MaxOff }

\* one line item {quantity, unit_price}; unit_price in thousandths
Item35 == [quantity |-> 1, unit_price |-> 35000]
Item50005 == [quantity |-> 1, unit_price |-> 50005]
Item0125 == [quantity |-> 1, unit_price |-> 125]
ItemLists == { <<>>, <<Item35>>, <<Item50005>>, <<Item0125>> }

----------------------------------------------------------------------------
(* Utilities *)

\* strftime("%d/%m/%Y %H:%M:%S"): the text keeps whole seconds only
_fmt_ts(ts) == ts \div TicksPerSec

\* strptime of that text; "" (and anything unparsable) gives None
_parse_ts(ts_str) == IF ts_str = None THEN None ELSE ts_str * TicksPerSec

timedelta(minutes) == minutes * SecPerMin * TicksPerSec

RECURSIVE SumItens(_)
SumItens(itens) ==
    IF itens = <<>> THEN 0
    ELSE Head(itens).unit_price * Head(itens).quantity + SumItens(Tail(itens))

\* thousandths whose nearest binary double lies above the decimal value
BinaryAbove == { 50005 }

\* round(x, 2) of a float given in thousandths; the result is in cents.
\* An exact tie (a multiple of 1/8) goes to the even cent; any other value
\* ending in 5 goes to the side its binary double lies on.
round2(m) ==
    LET lo == m \div 10
    IN  IF m % 10 < 5 THEN lo
        ELSE IF m % 10 > 5 THEN lo + 1
        ELSE IF m % 125 = 0 THEN (IF lo % 2 = 0 THEN lo ELSE lo + 1)
        ELSE IF m \in BinaryAbove THEN lo + 1 ELSE lo

_sum_itens_total(servicos_itens) == round2(SumItens(servicos_itens))

\* fluxo.py line 664: the total the confirmation message shows, in cents
total_local(itens) == round2(SumItens(itens))

\* "R$ {:,.2f}" of a float given in cents: the units and the two decimals
_fmt_brl_local(v) == [reais |-> v \div 100, centavos |-> v % 100]

----------------------------------------------------------------------------
(* Frames *)

\* Expirou with the comparison slipped to <=
Expirou_le(r, t) ==
    /\ r.Status = "Pendente"
    /\ _parse_ts(r.Expira_em) # None
    /\ _parse_ts(r.Expira_em) <= t

\* a Pending row whose Expira_em parses and lies before t
Expirou(r, t) ==
    /\ r.Status = "Pendente"
    /\ _parse_ts(r.Expira_em) # None
    /\ _parse_ts(r.Expira_em) < t

\* the loop of limpar_expirados over a loaded frame
MarcaExpirados(df, t) ==
    [i \in DOMAIN df |->
        IF Expirou(df[i], t) THEN [df[i] EXCEPT !.Status = "Expirado"] ELSE df[i]]

\* Bloqueia that lets a Confirmed row through
Bloqueia_so_pendente(r, horario_str, data) ==
    /\ r.Data = data
    /\ r.Horario = horario_str
    /\ r.Status = "Pendente"

\* cond of horario_disponivel; the function returns not cond.any()
Bloqueia(r, horario_str, data) ==
    /\ r.Data = data
    /\ r.Horario = horario_str
    /\ r.Status \in {"Pendente", "Confirmado"}

Livre(df, horario_str, data) ==
    ~ \E i \in DOMAIN df : Bloqueia(df[i], horario_str, data)

\* PendenteCom that forgets the status
PendenteCom_qualquer_status(r, agendamento_id) ==
    r.AgendamentoID = agendamento_id

\* cond of confirmar_pagamento and of marcar_expirado
PendenteCom(r, agendamento_id) ==
    r.AgendamentoID = agendamento_id /\ r.Status = "Pendente"

\* df.loc[cond, "Status"] = status
MarcaStatus(df, agendamento_id, status) ==
    [i \in DOMAIN df |->
        IF PendenteCom(df[i], agendamento_id)
        THEN [df[i] EXCEPT !.Status = status] ELSE df[i]]

\* NovoPendente that forgets the ttl
NovoPendente_sem_ttl(a, t) ==
    [ AgendamentoID |-> a.id,
      Data          |-> a.data,
      Horario       |-> a.horario,
      Status        |-> "Pendente",
      Expira_em     |-> _fmt_ts(t),
      ItensJSON     |-> a.itens,
      Total         |-> IF a.total # None THEN a.total
                        ELSE IF a.itens # <<>> THEN _sum_itens_total(a.itens)
                        ELSE 0 ]

\* the row reservar_pendente builds
NovoPendente(a, t) ==
    [ AgendamentoID |-> a.id,
      Data          |-> a.data,
      Horario       |-> a.horario,
      Status        |-> "Pendente",
      Expira_em     |-> _fmt_ts(t + timedelta(a.ttl_min)),
      ItensJSON     |-> a.itens,
      Total         |-> IF a.total # None THEN a.total
                        ELSE IF a.itens # <<>> THEN _sum_itens_total(a.itens)
                        ELSE 0 ]

\* the row registrar_agendamento builds
NovoConfirmado(a) ==
    [ AgendamentoID |-> a.id,
      Data          |-> a.data,
      Horario       |-> a.horario,
      Status        |-> "Confirmado",
      Expira_em     |-> None,
      ItensJSON     |-> <<>>,
      Total         |-> 0 ]

----------------------------------------------------------------------------
(* Handlers *)

NoArg == [id |-> 0, data |-> 0, horario |-> 0, itens |-> <<>>, total |-> None, ttl_min |-> 0]

\* a handler that is not running
IdleProc ==
    [pc |-> "idle", op |-> "none", arg |-> NoArg,
     df |-> <<>>, sw |-> <<>>, ret |-> "none", pre |-> <<>>]

\* entry of a call; pre remembers the file as the caller found it
Entra(op, a) == [IdleProc EXCEPT !.op = op, !.arg = a, !.pre = ledger]

\* return of a call: the private frames are dropped
Termina(pr, r) == [pr EXCEPT !.pc = "done", !.ret = r, !.df = <<>>, !.sw = <<>>]

AllIdle == \A p \in Procs : proc[p].pc = "idle"

\* what follows limpar_expirados in the running operation
DepoisDeLimpar(pr) ==
    IF pr.op = "limpar_expirados" THEN Termina(pr, "None")
    ELSE [pr EXCEPT !.sw = <<>>, !.pc = "disponivel"]

\* limpar_expirados up to its save: load, read the clock, mark the rows
CarregaLimpa(pr) ==
    LET df == ledger
        m  == MarcaExpirados(df, now)
    IN  IF m # df THEN [pr EXCEPT !.sw = m, !.pc = "limpar_save"]
        ELSE DepoisDeLimpar(pr)

\* uuid4().hex[:10]: any id of the space, the file is not consulted
_gen_id == Ids

TtlMins == { 1 }
TotaisDados == { None, 1000 }

\* parameters of reservar_pendente: the caller gives the id and the total
ArgsReservarDe(listas, totais) ==
    { [id |-> i, data |-> d, horario |-> h, itens |-> it, total |-> t, ttl_min |-> m] :
        i \in Ids, d \in Dates, h \in BLOCOS_HORARIOS, it \in listas,
        t \in totais, m \in TtlMins }

\* parameters criar_pre_agendamento hands to reservar_pendente
ArgsCriarDe(listas) ==
    { [id |-> i, data |-> d, horario |-> h, itens |-> it,
       total |-> _sum_itens_total(it), ttl_min |-> m] :
        i \in _gen_id, d \in Dates, h \in BLOCOS_HORARIOS, it \in listas,
        m \in TtlMins }

ArgsReservar == ArgsReservarDe({<<Item35>>}, {None})
ArgsCriar == ArgsCriarDe({<<Item35>>})

ArgsRegistrar ==
    { [NoArg EXCEPT !.id = i, !.data = d, !.horario = h] :
        i \in _gen_id, d \in Dates, h \in BLOCOS_HORARIOS }

ArgsDisponivel ==
    { [NoArg EXCEPT !.data = d, !.horario = h] : d \in Dates, h \in BLOCOS_HORARIOS }

\* the model follows a call that adds a row only while the file has fewer
\* than MaxRows rows; a call that is going to be refused is always followed
Cabe(a) ==
    \/ Len(ledger) < MaxRows
    \/ ~ Livre(MarcaExpirados(ledger, now), a.horario, a.data)

----------------------------------------------------------------------------
(* Steps.  Every step holds at most one access to the file. *)

limpar_expirados(p) ==
    /\ proc[p].pc = "idle"
    /\ proc' = [proc EXCEPT ![p] = CarregaLimpa(Entra("limpar_expirados", NoArg))]
    /\ UNCHANGED <<ledger, now, web>>

horario_disponivel(p, a) ==
    /\ proc[p].pc = "idle"
    /\ proc' = [proc EXCEPT ![p] = CarregaLimpa(Entra("horario_disponivel", a))]
    /\ UNCHANGED <<ledger, now, web>>

registrar_agendamento(p, a) ==
    /\ proc[p].pc = "idle"
    /\ proc' = [proc EXCEPT ![p] = CarregaLimpa(Entra("registrar_agendamento", a))]
    /\ UNCHANGED <<ledger, now, web>>

\* line 190: the frame is loaded before the availability check
reservar_pendente(p, a) ==
    /\ proc[p].pc = "idle"
    /\ proc' = [proc EXCEPT ![p] =
                    [Entra("reservar_pendente", a) EXCEPT !.df = ledger, !.pc = "limpar_load"]]
    /\ UNCHANGED <<ledger, now, web>>

criar_pre_agendamento(p, a) ==
    /\ proc[p].pc = "idle"
    /\ proc' = [proc EXCEPT ![p] =
                    [Entra("criar_pre_agendamento", a) EXCEPT !.df = ledger, !.pc = "limpar_load"]]
    /\ UNCHANGED <<ledger, now, web>>

\* limpar_expirados inside reservar_pendente's horario_disponivel
limpar_load(p) ==
    /\ proc[p].pc = "limpar_load"
    /\ proc' = [proc EXCEPT ![p] = CarregaLimpa(proc[p])]
    /\ UNCHANGED <<ledger, now, web>>

\* if alterado: salvar_agendamentos(df)
limpar_save(p) ==
    /\ proc[p].pc = "limpar_save"
    /\ ledger' = proc[p].sw
    /\ proc' = [proc EXCEPT ![p] = DepoisDeLimpar(proc[p])]
    /\ UNCHANGED <<now, web>>

\* horario_disponivel after the sweep: a fresh load and the test
disponivel(p) ==
    /\ proc[p].pc = "disponivel"
    /\ LET pr    == proc[p]
           livre == Livre(ledger, pr.arg.horario, pr.arg.data)
       IN  proc' = [proc EXCEPT ![p] =
             CASE pr.op = "horario_disponivel" ->
                    Termina(pr, IF livre THEN "True" ELSE "False")
               [] pr.op = "reservar_pendente" ->
                    IF livre THEN [pr EXCEPT !.pc = "reservar_save"] ELSE Termina(pr, "False")
               [] pr.op = "criar_pre_agendamento" ->
                    IF livre THEN [pr EXCEPT !.pc = "reservar_save"]
                    ELSE Termina(pr, "RuntimeError")
               [] OTHER ->
                    IF livre THEN [pr EXCEPT !.pc = "registrar_load"] ELSE Termina(pr, "False")]
    /\ UNCHANGED <<ledger, now, web>>

\* lines 194-220: the new row is appended to the frame loaded at line 190
reservar_save(p) ==
    /\ proc[p].pc = "reservar_save"
    /\ ledger' = Append(proc[p].df, NovoPendente(proc[p].arg, now))
    /\ proc' = [proc EXCEPT ![p] = Termina(proc[p], "True")]
    /\ UNCHANGED <<now, web>>

\* registrar_agendamento line 399
registrar_load(p) ==
    /\ proc[p].pc = "registrar_load"
    /\ proc' = [proc EXCEPT ![p].df = ledger, ![p].pc = "registrar_save"]
    /\ UNCHANGED <<ledger, now, web>>

registrar_save(p) ==
    /\ proc[p].pc = "registrar_save"
    /\ ledger' = Append(proc[p].df, NovoConfirmado(proc[p].arg))
    /\ proc' = [proc EXCEPT ![p] = Termina(proc[p], "True")]
    /\ UNCHANGED <<now, web>>

\* load, cond; without a Pending row of that id the call returns False
MudaStatus(p, op, agendamento_id, status) ==
    /\ proc[p].pc = "idle"
    /\ LET e == Entra(op, [NoArg EXCEPT !.id = agendamento_id])
       IN  proc' = [proc EXCEPT ![p] =
             IF \E i \in DOMAIN ledger : PendenteCom(ledger[i], agendamento_id)
             THEN [e EXCEPT !.df = MarcaStatus(ledger, agendamento_id, status),
                            !.pc = "status_save"]
             ELSE Termina(e, "False")]
    /\ UNCHANGED <<ledger, now, web>>

confirmar_pagamento(p, agendamento_id) ==
    MudaStatus(p, "confirmar_pagamento", agendamento_id, "Confirmado")

marcar_expirado(p, agendamento_id) ==
    MudaStatus(p, "marcar_expirado", agendamento_id, "Expirado")

\* salvar_agendamentos(df); return True
status_save(p) ==
    /\ proc[p].pc = "status_save"
    /\ ledger' = proc[p].df
    /\ proc' = [proc EXCEPT ![p] = Termina(proc[p], "True")]
    /\ UNCHANGED <<now, web>>

Return(p) ==
    /\ proc[p].pc = "done"
    /\ proc' = [proc EXCEPT ![p] = IdleProc]
    /\ UNCHANGED <<ledger, now, web>>

\* the clock moves between operations
Tick ==
    /\ AllIdle
    /\ \E t \in Instants : t > now /\ now' = t
    /\ UNCHANGED <<ledger, proc, web>>

\* the clock moves at any moment, here to the first instant at which a
\* reservation made at 0 is stale
TickAny ==
    /\ now = 0
    /\ now' = timedelta(1) + 1
    /\ UNCHANGED <<ledger, proc, web>>

----------------------------------------------------------------------------
(* Specifications *)

\* no webhook request is being served and no conversation has begun
NoReq == [pc |-> "none"]
WebIdle == req = NoReq /\ fluxo_usuario = <<>>

\* a row left in the file by an earlier run of the program
RowCancelado ==
    [ AgendamentoID |-> 1, Data |-> 1, Horario |-> 1, Status |-> "Cancelado",
      Expira_em |-> None, ItensJSON |-> <<>>, Total |-> 0 ]

Init ==
    /\ ledger \in { <<>>, <<RowCancelado>> }
    /\ now = 0
    /\ proc = [p \in Procs |-> IdleProc]
    /\ WebIdle

Passo(p) ==
    \/ limpar_load(p)
    \/ limpar_save(p)
    \/ disponivel(p)
    \/ reservar_save(p)
    \/ registrar_load(p)
    \/ registrar_save(p)
    \/ status_save(p)
    \/ Return(p)

\* one handler, run to its end before the next call
Next ==
    \/ limpar_expirados(1)
    \/ \E a \in ArgsDisponivel : horario_disponivel(1, a)
    \/ \E a \in ArgsRegistrar : Cabe(a) /\ registrar_agendamento(1, a)
    \/ \E a \in ArgsReservar : Cabe(a) /\ reservar_pendente(1, a)
    \/ \E a \in ArgsCriar : Cabe(a) /\ criar_pre_agendamento(1, a)
    \/ \E i \in Ids : confirmar_pagamento(1, i)
    \/ \E i \in Ids : marcar_expirado(1, i)
    \/ Passo(1)
    \/ Tick

Spec == Init /\ [][Next]_vars

PassoConc(p) ==
    \/ limpar_load(p)
    \/ limpar_save(p)
    \/ disponivel(p)
    \/ reservar_save(p)
    \/ status_save(p)
    \/ Return(p)

\* the calls of the webhook handlers, the payment webhook and the scheduler:
\* NumProcs handlers whose loads and saves interleave freely
NextConc ==
    \/ \E p \in Procs :
          \/ limpar_expirados(p)
          \/ \E a \in ArgsCriar : Len(ledger) < MaxRows /\ criar_pre_agendamento(p, a)
          \/ \E i \in Ids : confirmar_pagamento(p, i)
          \/ PassoConc(p)
    \/ TickAny

InitConc ==
    /\ ledger = <<>>
    /\ now = 0
    /\ proc = [p \in Procs |-> IdleProc]
    /\ WebIdle

SpecConc == InitConc /\ [][NextConc]_vars

\* the calls that create rows, over every list of items and every total a
\* caller may give; the clock stands still
PassoTotais(p) ==
    \/ limpar_load(p)
    \/ disponivel(p)
    \/ reservar_save(p)
    \/ registrar_load(p)
    \/ registrar_save(p)
    \/ Return(p)

NextTotais ==
    \/ \E a \in ArgsRegistrar : Cabe(a) /\ registrar_agendamento(1, a)
    \/ \E a \in ArgsReservarDe(ItemLists, TotaisDados) : Cabe(a) /\ reservar_pendente(1, a)
    \/ \E a \in ArgsCriarDe(ItemLists) : Cabe(a) /\ criar_pre_agendamento(1, a)
    \/ PassoTotais(1)

SpecTotais == InitConc /\ [][NextTotais]_vars

----------------------------------------------------------------------------
(* app.py: identifiers.  A string is a sequence of symbols; the three
   WhatsApp domain suffixes are single symbols. *)

Symbols == { "+", " ", "5", "a", "@c.us", "@g.us", "@s.whatsapp.net" }

RECURSIVE StringsUpTo(_)
StringsUpTo(n) ==
    IF n = 0 THEN { <<>> }
    ELSE StringsUpTo(n - 1) \cup
         { Append(s, c) : s \in { t \in StringsUpTo(n - 1) : Len(t) = n - 1 }, c \in Symbols }

\* Python's None where a string is expected
NoString == << "None" >>

Identifiers == StringsUpTo(MaxStr) \cup { NoString }

RECURSIVE lstrip(_)
lstrip(s) == IF s # <<>> /\ Head(s) = " " THEN lstrip(Tail(s)) ELSE s

RECURSIVE rstrip(_)
rstrip(s) ==
    IF s # <<>> /\ s[Len(s)] = " " THEN rstrip(SubSeq(s, 1, Len(s) - 1)) ELSE s

strip(s) == rstrip(lstrip(s))

endswith(s, suffix) == s # <<>> /\ s[Len(s)] = suffix

\* raw.replace("@s.whatsapp.net", "@c.us"): every occurrence
replace_s_whatsapp(s) ==
    [i \in DOMAIN s |-> IF s[i] = "@s.whatsapp.net" THEN "@c.us" ELSE s[i]]

isdigit(ch) == ch = "5"

_normalize_chat_id(identifier) ==
    IF identifier = NoString THEN <<>>
    ELSE LET raw0 == strip(identifier)
             raw1 == IF raw0 # <<>> /\ Head(raw0) = "+" THEN Tail(raw0) ELSE raw0
             raw2 == IF endswith(raw1, "@s.whatsapp.net") THEN replace_s_whatsapp(raw1) ELSE raw1
             digits == SelectSeq(raw2, isdigit)
         IN  IF raw0 = <<>> THEN <<>>
             ELSE IF endswith(raw2, "@c.us") \/ endswith(raw2, "@g.us") THEN raw2
             ELSE IF digits # <<>> THEN Append(digits, "@c.us")
             ELSE raw2

\* the ledger is not touched by the webhook layer
LedgerIdle == ledger = <<>> /\ now = 0 /\ proc = [p \in Procs |-> IdleProc]
ledgerVars == <<ledger, now, proc>>

\* one call of _normalize_chat_id on any identifier
Normaliza ==
    /\ req.pc = "chamada"
    /\ req' = [pc |-> "retorno", identifier |-> req.identifier,
               ret |-> _normalize_chat_id(req.identifier)]
    /\ UNCHANGED <<ledgerVars, fluxo_usuario>>

InitNormaliza ==
    /\ LedgerIdle
    /\ fluxo_usuario = <<>>
    /\ \E x \in Identifiers : req = [pc |-> "chamada", identifier |-> x]

SpecNormaliza == InitNormaliza /\ [][Normaliza]_vars

----------------------------------------------------------------------------
(* app.py: the static configuration and the tenant resolver *)

\* "" stands for an absent, None or empty string value
NoTenant == "None"

\* what importlib finds for a tenant: a package that defines both entry
\* points, a fluxo module that defines processar only, a package that defines
\* neither, no module at all, a module whose import raises
ModPacote == [import |-> "ok", processar |-> TRUE, processar_admin |-> TRUE]
ModFluxo == [import |-> "ok", processar |-> TRUE, processar_admin |-> FALSE]
ModVazio == [import |-> "ok", processar |-> FALSE, processar_admin |-> FALSE]
ModAusente == [import |-> "ModuleNotFoundError", processar |-> FALSE, processar_admin |-> FALSE]
ModQuebrado == [import |-> "Exception", processar |-> FALSE, processar_admin |-> FALSE]

\* one entry of empresas_config.json, and the tenant's flow module
Tenant(nome, base_url, waha_session, waha_number, modulo) ==
    [nome |-> nome, base_url |-> base_url, waha_session |-> waha_session,
     waha_number |-> waha_number, modulo |-> modulo]

Numero5 == << "5" >>
Numero55 == << "+", "5", "5" >>

\* empresas_config.json, in file order
CfgSolo == << Tenant("empresa2", TRUE, "s1", Numero5, ModVazio) >>
CfgShared == << Tenant("empresa1", TRUE, "s1", Numero5, ModFluxo),
                Tenant("empresa2", TRUE, "s1", Numero55, ModPacote) >>
CfgSplit == << Tenant("empresa1", TRUE, "", Numero5, ModQuebrado),
               Tenant("empresa2", TRUE, "s2", Numero55, ModAusente) >>
CfgNoDefault == << Tenant("empresa2", TRUE, "s1", Numero5, ModPacote),
                   Tenant("empresa3", FALSE, "s2", Numero5, ModPacote) >>
Configs == { CfgSolo, CfgShared, CfgSplit, CfgNoDefault }

config_empresas(cfg) == { cfg[i].nome : i \in DOMAIN cfg }

\* lines 74-86: tenants with a WAHA client, keyed by their session name
waha_clients(cfg) == { cfg[i].nome : i \in { j \in DOMAIN cfg : cfg[j].base_url } }

empresa_por_session(cfg, session) ==
    { cfg[i].nome : i \in { j \in DOMAIN cfg :
        /\ cfg[j].base_url
        /\ session = IF cfg[j].waha_session = "" THEN "default" ELSE cfg[j].waha_session } }

\* lines 88-104: the keys of empresa_por_numero_bot
NumerosBot(cfg) ==
    { _normalize_chat_id(cfg[i].waha_number) : i \in DOMAIN cfg } \ { <<>> }

\* empresa_por_numero_bot[numero]: a later entry of the file overwrites an earlier one
empresa_por_numero_bot(cfg, numero) ==
    LET js == { j \in DOMAIN cfg : _normalize_chat_id(cfg[j].waha_number) = numero }
    IN  cfg[CHOOSE j \in js : \A k \in js : k <= j].nome

Names == { "", "empresa1", "empresa2", "outra" }
Sessions == { "", "s1", "s2", "default" }
Owners == { <<>>, << "5" >>, << "5", "5" >>, << "a" >> }

\* _resolve_empresa whose last fallback does not test the configuration
_resolve_empresa_fallback_fixo(cfg, q, h, payload_fields) ==
    LET candidatos == empresa_por_session(cfg, payload_fields.session)
        owner == _normalize_chat_id(payload_fields.owner)
        to    == _normalize_chat_id(payload_fields.to)
    IN  IF q # "" /\ q \in config_empresas(cfg) THEN q
        ELSE IF h # "" /\ h \in config_empresas(cfg) THEN h
        ELSE IF payload_fields.empresa_hint # ""
                /\ payload_fields.empresa_hint \in config_empresas(cfg)
             THEN payload_fields.empresa_hint
        ELSE IF payload_fields.session # "" /\ Cardinality(candidatos) = 1
             THEN CHOOSE e \in candidatos : TRUE
        ELSE IF owner # <<>> /\ owner \in NumerosBot(cfg) THEN empresa_por_numero_bot(cfg, owner)
        ELSE IF to # <<>> /\ to \in NumerosBot(cfg) THEN empresa_por_numero_bot(cfg, to)
        ELSE IF Len(cfg) = 1 THEN cfg[1].nome
        ELSE "empresa1"

\* _resolve_empresa with the owner and the to lookups in the other order
_resolve_empresa_to_first(cfg, q, h, payload_fields) ==
    LET candidatos == empresa_por_session(cfg, payload_fields.session)
        owner == _normalize_chat_id(payload_fields.owner)
        to    == _normalize_chat_id(payload_fields.to)
    IN  IF q # "" /\ q \in config_empresas(cfg) THEN q
        ELSE IF h # "" /\ h \in config_empresas(cfg) THEN h
        ELSE IF payload_fields.empresa_hint # ""
                /\ payload_fields.empresa_hint \in config_empresas(cfg)
             THEN payload_fields.empresa_hint
        ELSE IF payload_fields.session # "" /\ Cardinality(candidatos) = 1
             THEN CHOOSE e \in candidatos : TRUE
        ELSE IF to # <<>> /\ to \in NumerosBot(cfg) THEN empresa_por_numero_bot(cfg, to)
        ELSE IF owner # <<>> /\ owner \in NumerosBot(cfg) THEN empresa_por_numero_bot(cfg, owner)
        ELSE IF Len(cfg) = 1 THEN cfg[1].nome
        ELSE IF "empresa1" \in config_empresas(cfg) THEN "empresa1" ELSE NoTenant

_resolve_empresa(cfg, q, h, payload_fields) ==
    LET candidatos == empresa_por_session(cfg, payload_fields.session)
        owner == _normalize_chat_id(payload_fields.owner)
        to    == _normalize_chat_id(payload_fields.to)
    IN  IF q # "" /\ q \in config_empresas(cfg) THEN q
        ELSE IF h # "" /\ h \in config_empresas(cfg) THEN h
        ELSE IF payload_fields.empresa_hint # ""
                /\ payload_fields.empresa_hint \in config_empresas(cfg)
             THEN payload_fields.empresa_hint
        ELSE IF payload_fields.session # "" /\ Cardinality(candidatos) = 1
             THEN CHOOSE e \in candidatos : TRUE
        ELSE IF owner # <<>> /\ owner \in NumerosBot(cfg) THEN empresa_por_numero_bot(cfg, owner)
        ELSE IF to # <<>> /\ to \in NumerosBot(cfg) THEN empresa_por_numero_bot(cfg, to)
        ELSE IF Len(cfg) = 1 THEN cfg[1].nome
        ELSE IF "empresa1" \in config_empresas(cfg) THEN "empresa1" ELSE NoTenant

\* the inputs of the resolver: the request's query and header, the fields
ResolveInputs ==
    [cfg : Configs, q : Names, h : Names,
     fields : [empresa_hint : Names, session : Sessions, owner : Owners, to : Owners]]

\* one call of _resolve_empresa
Resolve ==
    /\ req.pc = "resolver"
    /\ req' = [req EXCEPT !.pc = "resolvido",
                          !.empresa = _resolve_empresa(req.cfg, req.q, req.h, req.fields)]
    /\ UNCHANGED <<ledgerVars, fluxo_usuario>>

InitResolve ==
    /\ LedgerIdle
    /\ fluxo_usuario = <<>>
    /\ \E i \in ResolveInputs :
          req = [pc |-> "resolver", cfg |-> i.cfg, q |-> i.q, h |-> i.h,
                 fields |-> i.fields, empresa |-> NoTenant]

SpecResolve == InitResolve /\ [][Resolve]_vars

----------------------------------------------------------------------------
(* scripts_empresas/empresa1/fluxo.py: the conversation flow.  A message is
   one of the texts below, after _norm and lower(). *)

Msgs == { "menu", "voltar", "cancelar", "ajuda", "atendente",
          "status", "reenviar pix",
          "agendar", "servicos", "ver horarios", "1", "4",
          "pronto", "limpar", "remover 1", "pular", "joao", "12/06",
          "quero agendar", "??" }

\* the stages processar has a branch for
Etapas == { "menu", "selecionar_servicos", "solicitar_nome", "solicitar_insta",
            "solicitar_data", "solicitar_horario",
            "ver_horarios_data", "ver_horarios_listar" }

\* the state _get creates; ctx is kept as the cart and whether a date is set
Estado0 == [etapa |-> "menu", pilha |-> <<>>, servicos |-> {}, data |-> FALSE]

_get(fu, chat_id) == IF chat_id \in DOMAIN fu THEN fu[chat_id] ELSE Estado0

_push(state, new_state) ==
    [state EXCEPT !.pilha = Append(state.pilha, state.etapa), !.etapa = new_state]

_goto(state, new_state) == [state EXCEPT !.etapa = new_state]

\* _back that drops every frame and returns to the first
_back_ao_inicio(state) ==
    IF state.pilha # <<>>
    THEN [state EXCEPT !.etapa = state.pilha[1], !.pilha = <<>>]
    ELSE state

_back(state) ==
    IF state.pilha # <<>>
    THEN [state EXCEPT !.etapa = state.pilha[Len(state.pilha)],
                       !.pilha = SubSeq(state.pilha, 1, Len(state.pilha) - 1)]
    ELSE state

_reset(state) == Estado0

_is_universal(cmd) ==
    IF cmd \in {"menu", "voltar", "cancelar", "ajuda", "atendente"} THEN cmd ELSE ""

MENU_ROUTER(msg_lower) ==
    CASE msg_lower \in {"1", "agendar"} -> "agendar"
      [] msg_lower = "servicos" -> "servicos"
      [] msg_lower = "ver horarios" -> "ver_horarios"
      [] msg_lower \in {"4", "atendente"} -> "atendente"
      [] OTHER -> ""

TEXTUAL_TRIGGERS == { "agendar", "servicos", "ver horarios", "atendente" }

\* what processar leaves: the state, and whether it raised
Fez(state) == [estado |-> state, raised |-> FALSE]
Levantou(state) == [estado |-> state, raised |-> TRUE]

\* env.falha: the ledger call of this message raises
_handle_menu_action(escolha, estado, env) ==
    CASE escolha = "agendar" ->
            Fez([_push(estado, "selecionar_servicos") EXCEPT !.servicos = {}])
      [] escolha = "servicos" -> Fez(_goto(estado, "menu"))
      [] escolha = "ver_horarios" ->
            IF env.falha THEN Levantou(_goto(estado, "ver_horarios_listar"))
            ELSE Fez(_goto(estado, "ver_horarios_listar"))
      [] OTHER -> Fez(_goto(estado, "menu"))

\* re.match of the name, the @ and the DD/MM patterns; int(msg_norm)
NomeValido(msg) == msg \in { "pronto", "limpar", "joao", "quero agendar" }
InstaValido(msg) == msg \in { "1", "4", "pronto", "limpar", "joao" }
_parse_data(msg) == msg = "12/06"
Inteiro(msg) == msg \in { "1", "4" }
_parse_servicos_input(msg) == IF msg \in { "1", "4" } THEN { msg } ELSE {}

\* the branches of processar below the menu hotkeys, one per stage
Estagio(estado, msg, env) ==
    CASE estado.etapa = "menu" -> Fez(_goto(estado, "menu"))
      [] estado.etapa = "selecionar_servicos" ->
            IF msg = "pronto"
            THEN IF estado.servicos = {} THEN Fez(estado)
                 ELSE Fez(_goto(estado, "solicitar_nome"))
            ELSE IF msg = "limpar" THEN Fez([estado EXCEPT !.servicos = {}])
            ELSE IF msg = "remover 1" THEN Fez([estado EXCEPT !.servicos = @ \ {"1"}])
            ELSE Fez([estado EXCEPT !.servicos = @ \cup _parse_servicos_input(msg)])
      [] estado.etapa = "solicitar_nome" ->
            IF msg = "pular" \/ NomeValido(msg)
            THEN Fez(_goto(estado, "solicitar_insta")) ELSE Fez(estado)
      [] estado.etapa = "solicitar_insta" ->
            IF msg = "pular" \/ InstaValido(msg)
            THEN Fez(_goto(estado, "solicitar_data")) ELSE Fez(estado)
      [] estado.etapa = "solicitar_data" ->
            IF ~ _parse_data(msg) THEN Fez(estado)
            ELSE IF env.falha THEN Levantou([estado EXCEPT !.data = TRUE])
            ELSE Fez(_goto([estado EXCEPT !.data = TRUE], "solicitar_horario"))
      [] estado.etapa = "solicitar_horario" ->
            IF ~ Inteiro(msg) THEN Fez(estado)
            ELSE IF ~ estado.data THEN Fez(_reset(estado))
            ELSE IF env.falha THEN Levantou(estado)
            ELSE IF ~ env.livre \/ ~ env.itens THEN Fez(estado)
            ELSE Fez(_reset(estado))
      [] estado.etapa = "ver_horarios_data" ->
            IF ~ _parse_data(msg) THEN Fez(estado)
            ELSE IF env.falha THEN Levantou(_goto(estado, "ver_horarios_listar"))
            ELSE Fez(_goto(estado, "ver_horarios_listar"))
      [] estado.etapa = "ver_horarios_listar" ->
            IF _parse_data(msg) THEN (IF env.falha THEN Levantou(estado) ELSE Fez(estado))
            ELSE IF msg = "quero agendar"
            THEN Fez([_push(estado, "selecionar_servicos") EXCEPT !.servicos = {}])
            ELSE Fez(estado)
      [] OTHER -> Fez(_reset(estado))

\* processar that looks at the universal commands only in the menu
processar_so_no_menu(estado, msg, env) ==
    LET uni == IF estado.etapa = "menu" THEN _is_universal(msg) ELSE ""
        escolha == IF estado.etapa = "menu" THEN MENU_ROUTER(msg)
                   ELSE IF msg \in TEXTUAL_TRIGGERS THEN MENU_ROUTER(msg) ELSE ""
    IN  IF uni \in {"menu", "cancelar", "atendente"} THEN Fez(_reset(estado))
        ELSE IF uni = "voltar" THEN Fez(_back(estado))
        ELSE IF uni = "ajuda" THEN Fez(estado)
        ELSE IF msg \in {"status", "reenviar pix"} THEN Fez(estado)
        ELSE IF escolha # "" THEN _handle_menu_action(escolha, estado, env)
        ELSE Estagio(estado, msg, env)

\* processar on the state _get returned
processar(estado, msg, env) ==
    LET uni == _is_universal(msg)
        escolha == IF estado.etapa = "menu" THEN MENU_ROUTER(msg)
                   ELSE IF msg \in TEXTUAL_TRIGGERS THEN MENU_ROUTER(msg) ELSE ""
    IN  IF uni \in {"menu", "cancelar", "atendente"} THEN Fez(_reset(estado))
        ELSE IF uni = "voltar" THEN Fez(_back(estado))
        ELSE IF uni = "ajuda" THEN Fez(estado)
        ELSE IF msg \in {"status", "reenviar pix"} THEN Fez(estado)
        ELSE IF escolha # "" THEN _handle_menu_action(escolha, estado, env)
        ELSE Estagio(estado, msg, env)

\* lines 306-335: the box a universal command answers with
Envio(estado, msg) ==
    LET uni == _is_universal(msg)
    IN  CASE uni = "menu" -> "menu"
          [] uni = "voltar" -> IF estado.pilha # <<>> THEN "Voltar" ELSE "Inicio"
          [] uni = "cancelar" -> "Fluxo cancelado"
          [] uni = "ajuda" -> "Ajuda rapida"
          [] uni = "atendente" -> "Atendente"
          [] OTHER -> ""

\* what the ledger answers during one message
Envs == [livre : BOOLEAN, itens : BOOLEAN, falha : BOOLEAN]

ChatCliente == << "5", "@c.us" >>

\* one message of one customer, handed to processar
Mensagem ==
    /\ \E msg \in Msgs, env \in Envs :
          LET r == processar(_get(fluxo_usuario, ChatCliente), msg, env)
          IN  /\ Len(r.estado.pilha) <= MaxPilha
              /\ fluxo_usuario' = (ChatCliente :> r.estado) @@ fluxo_usuario
              /\ req' = [pc |-> "processar", msg |-> msg, raised |-> r.raised,
                         de |-> _get(fluxo_usuario, ChatCliente).etapa,
                         envio |-> Envio(_get(fluxo_usuario, ChatCliente), msg)]
    /\ UNCHANGED ledgerVars

InitFluxo == LedgerIdle /\ WebIdle

SpecFluxo == InitFluxo /\ [][Mensagem]_vars

----------------------------------------------------------------------------
(* app.py: _extract_message_fields.  A JSON value carries its type; a string
   is a sequence of symbols, an object a function from keys to values. *)

JNull == [t |-> "null"]
JStr(s) == [t |-> "str", v |-> s]
JNum(n) == [t |-> "num", v |-> n]
JBool(b) == [t |-> "bool", v |-> b]
JList(l) == [t |-> "list", v |-> l]
JObj(f) == [t |-> "obj", v |-> f]
JEmpty == [t |-> "obj", v |-> <<>>]

\* Python's truth value of a JSON value
Truthy(x) ==
    CASE x.t = "null" -> FALSE
      [] x.t = "str" -> x.v # <<>>
      [] x.t = "num" -> x.v # 0
      [] x.t = "bool" -> x.v
      [] x.t = "raise" -> FALSE
      [] x.t = "list" -> Len(x.v) > 0
      [] OTHER -> DOMAIN x.v # {}

\* a or b
Or(a, b) == IF Truthy(a) THEN a ELSE b

IsObj(x) == x.t = "obj"
IsList(x) == x.t = "list"

\* d.get(k) of a dict; the callers test that d is one
get(d, k) == IF IsObj(d) /\ k \in DOMAIN d.v THEN d.v[k] ELSE JNull

\* d.get(k, {})
get_or_empty(d, k) == IF IsObj(d) /\ k \in DOMAIN d.v THEN d.v[k] ELSE JEmpty

\* str(x) of a value that is not a string
str(x) == IF x.t = "str" THEN x.v ELSE IF x.t = "num" THEN << "5" >> ELSE << "a" >>

FlatKeys == { "body", "text", "from", "chatId", "sender", "to", "fromMe",
              "timestamp", "t", "id", "messages", "message" }

\* DataOf that does not look under the "payload" key
DataOf_sem_payload(payload) ==
    LET data == Or(Or(get(payload, "data"), payload), JEmpty)
    IN  IF IsList(data) /\ Len(data.v) > 0 THEN data.v[1] ELSE data

\* lines 122-129
DataOf(payload) ==
    LET data == Or(Or(Or(get(payload, "data"), get(payload, "payload")), payload), JEmpty)
    IN  IF IsList(data) /\ Len(data.v) > 0 THEN data.v[1] ELSE data

\* lines 131-145: msg_obj
MsgObjOf(payload) ==
    LET data == DataOf(payload)
        m1 == IF IsObj(data) /\ DOMAIN data.v \cap FlatKeys # {} THEN data ELSE JNull
        m2 == IF IsObj(data) /\ IsList(get(data, "messages")) /\ Len(get(data, "messages").v) > 0
              THEN get(data, "messages").v[1] ELSE m1
        m3 == IF m2.t = "null" /\ IsList(get(payload, "messages"))
                 /\ Len(get(payload, "messages").v) > 0
              THEN get(payload, "messages").v[1] ELSE m2
    IN  Or(m3, JEmpty)

\* the nested "message" node is read: text is empty and message is a dict
Aninhado(m) ==
    LET text == Or(Or(get(m, "body"), get(m, "text")), JStr(<<>>))
    IN  strip(str(text)) = <<>> /\ IsObj(get(m, "message"))

\* x.get(k, {}) along a chain: the attribute error of a link that is not a
\* dict is carried to the end
JRaise == [t |-> "raise"]
chain(x, k) == IF IsObj(x) THEN get_or_empty(x, k) ELSE JRaise
chain_get(x, k) == IF IsObj(x) THEN get(x, k) ELSE JRaise

\* lines 158-164: the text of the nested node, before .strip(); each
\* alternative is evaluated only when the ones before it are falsy
TextoAninhado(m) ==
    LET node == get(m, "message")
        c1 == get(node, "conversation")
        c2 == chain_get(chain(node, "extendedTextMessage"), "text")
        c3 == chain_get(chain(chain(chain(node, "ephemeralMessage"), "message"),
                              "extendedTextMessage"), "text")
        c4 == chain_get(chain(node, "buttonsResponseMessage"), "selectedDisplayText")
    IN  IF Truthy(c1) THEN c1
        ELSE IF c2.t = "raise" \/ Truthy(c2) THEN c2
        ELSE IF c3.t = "raise" \/ Truthy(c3) THEN c3
        ELSE IF c4.t = "raise" \/ Truthy(c4) THEN c4
        ELSE JStr(<<>>)

\* an attribute of a value that has none is read: .get of a non-dict (the
\* root, data at line 224 at the latest, msg_obj at line 147), .strip of a
\* non-string (line 164)
Raises(payload) ==
    \/ ~ IsObj(payload)
    \/ ~ IsObj(DataOf(payload))
    \/ ~ IsObj(MsgObjOf(payload))
    \/ /\ Aninhado(MsgObjOf(payload))
       /\ TextoAninhado(MsgObjOf(payload)).t # "str"

\* lines 147-182: the fields of the returned dict the webhook routes by,
\* from data and msg_obj
Campos(data, m) ==
    LET text0 == strip(str(Or(Or(get(m, "body"), get(m, "text")), JStr(<<>>))))
        chat0 == Or(Or(Or(Or(get(m, "from"), get(m, "chatId")), get(m, "chat_id")),
                       get(m, "sender")), JStr(<<>>))
        to0   == Or(get(m, "to"), JStr(<<>>))
        key_data == IF IsObj(get(m, "key")) THEN get(m, "key") ELSE JEmpty
        text1 == IF Aninhado(m) THEN strip(str(TextoAninhado(m))) ELSE text0
        chat1 == IF Aninhado(m) /\ ~ Truthy(chat0)
                 THEN Or(Or(Or(get(key_data, "remoteJid"), get(m, "chatId")),
                            get(m, "chat_id")), JStr(<<>>))
                 ELSE chat0
        to1   == IF Aninhado(m) /\ ~ Truthy(to0)
                 THEN Or(Or(get(key_data, "participant"), get(key_data, "from")), JStr(<<>>))
                 ELSE to0
        fm0   == Truthy(Or(get(m, "fromMe"), get(data, "fromMe")))
        fm1   == IF Aninhado(m) /\ "fromMe" \notin DOMAIN m.v /\ Truthy(key_data)
                 THEN Truthy(get(key_data, "fromMe")) ELSE fm0
        chat2 == IF ~ Truthy(chat1) /\ IsObj(get(m, "key"))
                 THEN get_or_empty(get(m, "key"), "remoteJid") ELSE chat1
        chat3 == strip(str(Or(chat2, JStr(<<>>))))
    IN  [msg |-> text1,
         chat_id |-> IF endswith(chat3, "@s.whatsapp.net") THEN replace_s_whatsapp(chat3)
                     ELSE chat3,
         to |-> strip(str(Or(to1, JStr(<<>>)))),
         from_me |-> fm1]

\* the returned fields of a payload on which nothing raises
Fields(payload) == Campos(DataOf(payload), MsgObjOf(payload))

AttributeError == [raised |-> TRUE]

\* request.get_json(...) or {}, then _extract_message_fields
_extract_message_fields(json) ==
    LET payload == Or(json, JEmpty)
    IN  IF Raises(payload) THEN AttributeError
        ELSE [raised |-> FALSE, fields |-> Fields(payload)]

\* the payloads WAHA sends for one message: the sender and the text in
\* each of the layouts the docstring lists
Senders == { << "5", "@c.us" >>, << "5", "@s.whatsapp.net" >>, << "+", "5" >> }
Texts == { << "a" >>, << "a", " " >> }

Obj1(k, x) == JObj(k :> x)
Obj2(k, x, l, y) == JObj((k :> x) @@ (l :> y))

Flat(sender, text) == Obj2("from", JStr(sender), "body", JStr(text))
Upsert(sender, text, node) ==
    Obj2("key", Obj1("remoteJid", JStr(sender)), "message", node)

Shapes == { "flat", "chatId_text", "data", "payload", "data_list", "data_messages",
            "root_messages", "conversation", "extendedTextMessage" }

Payload(shape, sender, text) ==
    CASE shape = "flat" -> Flat(sender, text)
      [] shape = "chatId_text" -> Obj2("chatId", JStr(sender), "text", JStr(text))
      [] shape = "data" -> Obj2("event", JStr(<<"a">>), "data", Flat(sender, text))
      [] shape = "payload" -> Obj2("event", JStr(<<"a">>), "payload", Flat(sender, text))
      [] shape = "data_list" -> Obj1("data", JList(<< Flat(sender, text) >>))
      [] shape = "data_messages" ->
            Obj1("data", Obj1("messages", JList(<< Flat(sender, text) >>)))
      [] shape = "root_messages" ->
            Obj2("session", JStr(<<"a">>), "messages", JList(<< Flat(sender, text) >>))
      [] shape = "conversation" ->
            Obj1("data", Obj1("messages",
                JList(<< Upsert(sender, text, Obj1("conversation", JStr(text))) >>)))
      [] OTHER ->
            Obj1("messages",
                JList(<< Upsert(sender, text,
                           Obj1("extendedTextMessage", Obj1("text", JStr(text)))) >>))

\* JSON that is not one of those layouts
Malformed ==
    << JNull, JEmpty, JList(<<>>), JList(<< JNum(1) >>), JStr(<< "a" >>), JNum(5),
      Obj1("data", JNull), Obj1("data", JStr(<< "a" >>)), Obj1("data", JNum(5)),
      Obj1("data", JList(<< JNum(1) >>)), Obj1("data", JList(<< JStr(<< "a" >>) >>)),
      Obj1("data", Obj1("messages", JList(<< JStr(<< "a" >>) >>))),
      Obj1("data", Obj1("messages", JList(<< JNull >>))),
      Obj1("messages", JList(<< JNum(5) >>)),
      Obj1("message", JNull),
      Obj1("data", Obj1("messages", JList(<<
          Upsert(<< "5", "@c.us" >>, <<>>, Obj1("conversation", JNull)) >>))),
      Obj1("data", Obj1("messages", JList(<<
          Upsert(<< "5", "@c.us" >>, <<>>, Obj1("extendedTextMessage", JNull)) >>))),
      Obj1("data", Obj1("messages", JList(<<
          Upsert(<< "5", "@c.us" >>, <<>>, Obj1("conversation", JNum(5))) >>))) >>

\* one call of the extraction on the JSON of a request
Extrai ==
    /\ req.pc = "recebido"
    /\ req' = [req EXCEPT !.pc = "extraido", !.ret = _extract_message_fields(req.json)]
    /\ UNCHANGED <<ledgerVars, fluxo_usuario>>

InitExtrai ==
    /\ LedgerIdle
    /\ fluxo_usuario = <<>>
    /\ \/ \E shape \in Shapes, sender \in Senders, text \in Texts :
             req = [pc |-> "recebido", shape |-> shape, sender |-> sender, text |-> text,
                    json |-> Payload(shape, sender, text), ret |-> [raised |-> FALSE]]
       \/ \E i \in DOMAIN Malformed :
             req = [pc |-> "recebido", shape |-> "malformed", sender |-> <<>>, text |-> <<>>,
                    json |-> Malformed[i], ret |-> [raised |-> FALSE]]

SpecExtrai == InitExtrai /\ [][Extrai]_vars

----------------------------------------------------------------------------
(* app.py: the webhook, from the extracted fields to the response *)

ChatAdmin == << "5", "5", "@c.us" >>
ChatGrupo == << "5", "@g.us" >>
NoChat == <<>>

\* admins_config.json
admins_por_empresa(empresa) ==
    IF empresa \in {"empresa1", "empresa2"} THEN { ChatAdmin } ELSE {}

_is_group(chat_id) == \E i \in DOMAIN chat_id : chat_id[i] = "@g.us"

importlib(cfg, empresa) ==
    cfg[CHOOSE i \in DOMAIN cfg : cfg[i].nome = empresa].modulo

\* what a webhook leaves: the response, the entry point it invoked, whether
\* an exception left the handler, the conversation states
Resposta(status, invoked, raised, fu) ==
    [status |-> status, invoked |-> invoked, raised |-> raised, propagou |-> FALSE,
     fu |-> fu]

\* _dispatch_to_flow without the try around the entry points
_dispatch_to_flow_sem_try(cfg, empresa, chat_id, msg, fu, env) ==
    LET modulo == importlib(cfg, empresa)
        r == processar(_get(fu[empresa], chat_id), msg, env)
        fu2 == [fu EXCEPT ![empresa] = (chat_id :> r.estado) @@ fu[empresa]]
    IN  IF empresa \notin waha_clients(cfg) THEN Resposta(500, "none", FALSE, fu)
        ELSE IF modulo.import # "ok" THEN Resposta(500, "none", FALSE, fu)
        ELSE IF chat_id \in admins_por_empresa(empresa)
        THEN IF modulo.processar_admin
             THEN IF env.falha
                  THEN [Resposta(0, "processar_admin", TRUE, fu) EXCEPT !.propagou = TRUE]
                  ELSE Resposta(200, "processar_admin", FALSE, fu)
             ELSE Resposta(500, "none", FALSE, fu)
        ELSE IF modulo.processar
        THEN IF r.raised
             THEN [Resposta(0, "processar", TRUE, fu2) EXCEPT !.propagou = TRUE]
             ELSE Resposta(200, "processar", FALSE, fu2)
        ELSE Resposta(500, "none", FALSE, fu)

\* _dispatch_to_flow that tests the admin set of a fixed tenant
_dispatch_to_flow_outro_admin(cfg, empresa, chat_id, msg, fu, env) ==
    LET modulo == importlib(cfg, empresa)
        r == processar(_get(fu[empresa], chat_id), msg, env)
        fu2 == [fu EXCEPT ![empresa] = (chat_id :> r.estado) @@ fu[empresa]]
    IN  IF empresa \notin waha_clients(cfg) THEN Resposta(500, "none", FALSE, fu)
        ELSE IF modulo.import # "ok" THEN Resposta(500, "none", FALSE, fu)
        ELSE IF chat_id \in admins_por_empresa("empresa3")
        THEN IF modulo.processar_admin
             THEN IF env.falha THEN Resposta(500, "processar_admin", TRUE, fu)
                  ELSE Resposta(200, "processar_admin", FALSE, fu)
             ELSE Resposta(500, "none", FALSE, fu)
        ELSE IF modulo.processar
        THEN IF r.raised THEN Resposta(500, "processar", TRUE, fu2)
             ELSE Resposta(200, "processar", FALSE, fu2)
        ELSE Resposta(500, "none", FALSE, fu)

\* _dispatch_to_flow that hands every tenant's conversations to the flow
_dispatch_to_flow_estado_global(cfg, empresa, chat_id, msg, fu, env) ==
    LET modulo == importlib(cfg, empresa)
        r == processar(_get(fu[empresa], chat_id), msg, env)
        fu2 == [e \in DOMAIN fu |-> (chat_id :> r.estado) @@ fu[e]]
    IN  IF empresa \notin waha_clients(cfg) THEN Resposta(500, "none", FALSE, fu)
        ELSE IF modulo.import # "ok" THEN Resposta(500, "none", FALSE, fu)
        ELSE IF chat_id \in admins_por_empresa(empresa)
        THEN IF modulo.processar_admin
             THEN IF env.falha THEN Resposta(500, "processar_admin", TRUE, fu)
                  ELSE Resposta(200, "processar_admin", FALSE, fu)
             ELSE Resposta(500, "none", FALSE, fu)
        ELSE IF modulo.processar
        THEN IF r.raised THEN Resposta(500, "processar", TRUE, fu2)
             ELSE Resposta(200, "processar", FALSE, fu2)
        ELSE Resposta(500, "none", FALSE, fu)

\* env.falha: a ledger or payment call made by the entry point raises
_dispatch_to_flow(cfg, empresa, chat_id, msg, fu, env) ==
    LET modulo == importlib(cfg, empresa)
        r == processar(_get(fu[empresa], chat_id), msg, env)
        fu2 == [fu EXCEPT ![empresa] = (chat_id :> r.estado) @@ fu[empresa]]
    IN  IF empresa \notin waha_clients(cfg) THEN Resposta(500, "none", FALSE, fu)
        ELSE IF modulo.import # "ok" THEN Resposta(500, "none", FALSE, fu)
        ELSE IF chat_id \in admins_por_empresa(empresa)
        THEN IF modulo.processar_admin
             THEN IF env.falha THEN Resposta(500, "processar_admin", TRUE, fu)
                  ELSE Resposta(200, "processar_admin", FALSE, fu)
             ELSE Resposta(500, "none", FALSE, fu)
        ELSE IF modulo.processar
        THEN IF r.raised THEN Resposta(500, "processar", TRUE, fu2)
             ELSE Resposta(200, "processar", FALSE, fu2)
        ELSE Resposta(500, "none", FALSE, fu)

\* the body of waha_webhook after _extract_message_fields
Webhook(cfg, q, h, fields, fu, env) ==
    LET empresa == _resolve_empresa(cfg, q, h, fields)
    IN  IF fields.from_me \/ fields.chat_id = NoChat \/ fields.msg = ""
           \/ _is_group(fields.chat_id)
        THEN [resolvido |-> FALSE, empresa |-> NoTenant,
              r |-> Resposta(200, "none", FALSE, fu)]
        ELSE IF empresa = NoTenant
        THEN [resolvido |-> TRUE, empresa |-> empresa,
              r |-> Resposta(400, "none", FALSE, fu)]
        ELSE [resolvido |-> TRUE, empresa |-> empresa,
              r |-> _dispatch_to_flow(cfg, empresa, fields.chat_id, fields.msg, fu, env)]

WebMsgs == { "", "menu", "ver horarios" }

\* the fields of a message to dispatch, and one message for each filter
WebFields ==
    [chat_id : { ChatCliente, ChatAdmin }, msg : WebMsgs \ { "" },
     from_me : { FALSE }, empresa_hint : { "" }, session : { "", "s1" },
     owner : { <<>> }, to : { <<>>, << "5", "5" >> }]
    \cup
    [chat_id : { ChatCliente }, msg : { "menu" },
     from_me : { TRUE }, empresa_hint : { "" }, session : { "s1" },
     owner : { <<>> }, to : { <<>> }]
    \cup
    [chat_id : { NoChat, ChatGrupo }, msg : { "menu" },
     from_me : { FALSE }, empresa_hint : { "" }, session : { "s1" },
     owner : { <<>> }, to : { <<>> }]
    \cup
    [chat_id : { ChatCliente }, msg : { "" },
     from_me : { FALSE }, empresa_hint : { "" }, session : { "s1" },
     owner : { <<>> }, to : { <<>> }]

\* during a webhook only a failure of the ledger matters
WebEnvs == { env \in Envs : env.livre /\ env.itens }

\* one request to /waha/webhook, served to its response
waha_webhook ==
    /\ ~ req.propagou
    /\ \E q \in { "", "empresa1" }, fields \in WebFields, env \in WebEnvs :
          LET w == Webhook(req.cfg, q, "", fields, fluxo_usuario, env)
          IN  /\ \A e \in DOMAIN w.r.fu : \A c \in DOMAIN w.r.fu[e] :
                    Len(w.r.fu[e][c].pilha) <= MaxPilha
              /\ fluxo_usuario' = w.r.fu
              /\ req' = [pc |-> "respondido", cfg |-> req.cfg, q |-> q, fields |-> fields,
                         resolvido |-> w.resolvido, empresa |-> w.empresa,
                         status |-> w.r.status, invoked |-> w.r.invoked,
                         raised |-> w.r.raised, propagou |-> w.r.propagou,
                         antes |-> fluxo_usuario, anterior |-> req.raised]
    /\ UNCHANGED ledgerVars

InitWebhook ==
    /\ LedgerIdle
    /\ \E cfg \in Configs :
          /\ req = [pc |-> "idle", cfg |-> cfg, raised |-> FALSE, propagou |-> FALSE]
          /\ fluxo_usuario = [e \in config_empresas(cfg) |-> <<>>]

SpecWebhook == InitWebhook /\ [][waha_webhook]_vars

----------------------------------------------------------------------------
(* fluxo.py lines 575-712 over the ledger: the message that picks a time
   slot, served by handler 1 while handler 2 serves the reservation of
   another chat.  The ledger calls of both are the steps above. *)

\* the conversation that is asked for a time slot: "1", a service, the name,
\* the Instagram and a date were sent
EstadoHorario ==
    [etapa |-> "solicitar_horario", pilha |-> << "menu" >>, servicos |-> { "1" },
     data |-> TRUE]

\* line 594: horario_disponivel(horario_escolhido, data_sel)
verifica_horario(h) ==
    /\ req.pc = "recebido"
    /\ horario_disponivel(1, [NoArg EXCEPT !.data = 1, !.horario = h])

\* lines 601-630: the slot was free at line 594, criar_pre_agendamento is
\* called with the items of the cart
reserva_horario ==
    /\ req.pc = "recebido"
    /\ proc[1].pc = "done" /\ proc[1].op = "horario_disponivel" /\ proc[1].ret = "True"
    /\ \E i \in _gen_id :
          LET a == [id |-> i, data |-> proc[1].arg.data, horario |-> proc[1].arg.horario,
                    itens |-> << Item35 >>, total |-> _sum_itens_total(<< Item35 >>),
                    ttl_min |-> 1]
          IN  proc' = [proc EXCEPT ![1] =
                 [Entra("criar_pre_agendamento", a) EXCEPT !.df = ledger, !.pc = "limpar_load"]]
    /\ UNCHANGED <<ledger, now, web>>

\* the end of the request: the re-prompt of lines 595-599, the reset of line
\* 711, or the RuntimeError of agenda.py line 256 leaving processar and
\* caught at app.py line 358
responde_horario ==
    /\ req.pc = "recebido"
    /\ proc[1].pc = "done"
    /\ \/ proc[1].op = "horario_disponivel" /\ proc[1].ret = "False"
       \/ proc[1].op = "criar_pre_agendamento"
    /\ LET env == [livre |-> proc[1].op = "criar_pre_agendamento", itens |-> TRUE,
                   falha |-> proc[1].ret = "RuntimeError"]
           r == _dispatch_to_flow(CfgShared, "empresa1", ChatCliente, "1",
                                  fluxo_usuario, env)
       IN  /\ fluxo_usuario' = r.fu
           /\ req' = [pc |-> "respondido", status |-> r.status, raised |-> r.raised,
                      livre |-> env.livre, reserva |-> proc[1].ret,
                      horario |-> proc[1].arg.horario,
                      reprompt |-> ~ env.livre]
    /\ proc' = [proc EXCEPT ![1] = IdleProc]
    /\ UNCHANGED <<ledger, now>>

NextHorario ==
    \/ \E h \in BLOCOS_HORARIOS : verifica_horario(h)
    \/ reserva_horario
    \/ responde_horario
    \/ limpar_load(1)
    \/ disponivel(1)
    \/ reservar_save(1)
    \/ \E a \in ArgsCriar : Len(ledger) < MaxRows /\ criar_pre_agendamento(2, a)
    \/ limpar_load(2)
    \/ disponivel(2)
    \/ reservar_save(2)
    \/ Return(2)

InitHorario ==
    /\ LedgerIdle
    /\ req = [pc |-> "recebido"]
    /\ fluxo_usuario = [e \in config_empresas(CfgShared) |->
                           IF e = "empresa1" THEN (ChatCliente :> EstadoHorario) ELSE <<>>]

SpecHorario == InitHorario /\ [][NextHorario]_vars

----------------------------------------------------------------------------
(* app.py: _scheduler_loop.  The thread's position and its two sets are kept
   in req; every step holds at most one access to the ledger file, so that
   the calls of a webhook handler (handler 2) interleave with a tick.  The
   rows are those criar_pre_agendamento writes for a chat, with the TTL and
   the reminder window both of one minute. *)

PIX_REMINDER_WINDOW_MIN == 1

\* the tenants that have a scripts_empresas.<empresa>.agenda module
TemAgenda(empresa) == empresa = "empresa1"

\* empresas_config.json with the tenant that has an agenda last, after a
\* tenant without a WAHA client and a tenant without an agenda
CfgAgendaUltima == << Tenant("empresa3", FALSE, "s2", Numero5, ModPacote),
                      Tenant("empresa2", TRUE, "s1", Numero5, ModPacote),
                      Tenant("empresa1", TRUE, "s1", Numero5, ModFluxo) >>

CfgsSched == { CfgShared, CfgAgendaUltima }

\* the ids of the rows of a frame that satisfy a condition
IdsDe(df, Cond(_)) == { df[i].AgendamentoID : i \in { j \in DOMAIN df : Cond(df[j]) } }

EhPendente(r) == r.Status = "Pendente"
EhExpirado(r) == r.Status = "Expirado"

\* agenda.py lines 361-380: now < expira_dt <= limite
PrestesAExpirar(df, t) ==
    { df[i].AgendamentoID : i \in { j \in DOMAIN df :
        /\ df[j].Status = "Pendente"
        /\ _parse_ts(df[j].Expira_em) # None
        /\ t < _parse_ts(df[j].Expira_em)
        /\ _parse_ts(df[j].Expira_em) <= t + timedelta(PIX_REMINDER_WINDOW_MIN) } }

\* one more message counted for each id of a set
Conta(envios, ids) == [i \in DOMAIN envios |-> IF i \in ids THEN envios[i] + 1 ELSE envios[i]]

\* the end of the body of the for: the next tenant, or time.sleep
ProximaEmpresa(r) ==
    IF r.i = Len(r.cfg) THEN [r EXCEPT !.pc = "sleep", !.pend_before = {}]
    ELSE [r EXCEPT !.pc = "empresa", !.i = r.i + 1, !.pend_before = {}]

\* the first tenant of this pass for which something failed
Falhou(r) == IF r.falhou = "" THEN [r EXCEPT !.falhou = r.cfg[r.i].nome] ELSE r

\* time.sleep returns: the next pass of while True
sched_acorda ==
    /\ req.pc = "sleep"
    /\ req' = [req EXCEPT !.pc = "empresa", !.i = 1, !.visitados = <<>>, !.falhou = ""]
    /\ UNCHANGED <<ledgerVars, fluxo_usuario>>

\* lines 496-505: the WAHA client and the agenda module of the tenant
sched_empresa ==
    /\ req.pc = "empresa"
    /\ LET e == req.cfg[req.i].nome
           r == [req EXCEPT !.visitados = Append(@, e)]
       IN  req' = IF e \notin waha_clients(req.cfg) THEN ProximaEmpresa(Falhou(r))
                  ELSE IF ~ TemAgenda(e) THEN ProximaEmpresa(Falhou(r))
                  ELSE [r EXCEPT !.pc = "lembretes"]
    /\ UNCHANGED <<ledgerVars, fluxo_usuario>>

\* sched_lembretes without the try of lines 509-513
sched_lembretes_sem_try(falha) ==
    /\ req.pc = "lembretes"
    /\ LET m == MarcaExpirados(ledger, now)
       IN  req' = IF falha THEN [Falhou(req) EXCEPT !.pc = "sleep"]
                     ELSE IF m # ledger THEN [req EXCEPT !.sw = m, !.pc = "lembretes_save"]
                     ELSE [req EXCEPT !.pc = "lembretes_load"]
    /\ UNCHANGED <<ledgerVars, fluxo_usuario>>

\* lines 507-513: listar_pendentes_prestes_a_expirar begins with
\* limpar_expirados (agenda.py line 357); an exception leaves no candidate
sched_lembretes(falha) ==
    /\ req.pc = "lembretes"
    /\ LET m == MarcaExpirados(ledger, now)
       IN  req' = IF falha THEN [Falhou(req) EXCEPT !.pc = "before"]
                     ELSE IF m # ledger THEN [req EXCEPT !.sw = m, !.pc = "lembretes_save"]
                     ELSE [req EXCEPT !.pc = "lembretes_load"]
    /\ UNCHANGED <<ledgerVars, fluxo_usuario>>

\* limpar_expirados: if alterado: salvar_agendamentos(df)
sched_lembretes_save ==
    /\ req.pc = "lembretes_save"
    /\ ledger' = req.sw
    /\ req' = [req EXCEPT !.sw = <<>>, !.pc = "lembretes_load"]
    /\ UNCHANGED <<now, proc, fluxo_usuario>>

\* sched_lembretes_load that does not record whom it reminded
sched_lembretes_load_sem_marca ==
    /\ req.pc = "lembretes_load"
    /\ LET e == req.cfg[req.i].nome
           novos == PrestesAExpirar(ledger, now) \ req._reminded_expiring[e]
       IN  req' = [req EXCEPT !.pc = "before",
                              !.lembretes = Conta(@, novos)]
    /\ UNCHANGED <<ledgerVars, fluxo_usuario>>

\* agenda.py lines 358-380 and app.py lines 515-543: the candidates of a
\* fresh load; each one not yet reminded is sent the reminder and recorded,
\* whether or not the send failed
sched_lembretes_load ==
    /\ req.pc = "lembretes_load"
    /\ LET e == req.cfg[req.i].nome
           novos == PrestesAExpirar(ledger, now) \ req._reminded_expiring[e]
       IN  req' = [req EXCEPT !.pc = "before",
                              !.lembretes = Conta(@, novos),
                              !._reminded_expiring[e] = @ \cup novos]
    /\ UNCHANGED <<ledgerVars, fluxo_usuario>>

\* lines 546-554: the ids that are Pending before the sweep
sched_before(falha) ==
    /\ req.pc = "before"
    /\ req' = IF falha THEN [Falhou(req) EXCEPT !.pend_before = {}, !.pc = "limpar"]
              ELSE [req EXCEPT !.pend_before = IdsDe(ledger, EhPendente), !.pc = "limpar"]
    /\ UNCHANGED <<ledgerVars, fluxo_usuario>>

\* lines 556-559: agenda.limpar_expirados()
sched_limpar(falha) ==
    /\ req.pc = "limpar"
    /\ LET m == MarcaExpirados(ledger, now)
       IN  req' = IF falha THEN [Falhou(req) EXCEPT !.pc = "after"]
                     ELSE IF m # ledger THEN [req EXCEPT !.sw = m, !.pc = "limpar_save"]
                     ELSE [req EXCEPT !.pc = "after"]
    /\ UNCHANGED <<ledgerVars, fluxo_usuario>>

sched_limpar_save ==
    /\ req.pc = "limpar_save"
    /\ ledger' = req.sw
    /\ req' = [req EXCEPT !.sw = <<>>, !.pc = "after"]
    /\ UNCHANGED <<now, proc, fluxo_usuario>>

\* lines 561-592: the rows that are Expired after the sweep and were Pending
\* before it; each id not yet notified is sent the notice and recorded
sched_after(falha) ==
    /\ req.pc = "after"
    /\ LET e == req.cfg[req.i].nome
           novos == (IdsDe(ledger, EhExpirado) \cap req.pend_before)
                          \ req._notified_expired[e]
       IN  req' = IF falha THEN ProximaEmpresa(Falhou(req))
                     ELSE ProximaEmpresa([req EXCEPT !.avisos = Conta(@, novos),
                                                    !._notified_expired[e] = @ \cup novos])
    /\ UNCHANGED <<ledgerVars, fluxo_usuario>>

\* one step of the thread; Falhas tells whether a call of the agenda may raise
_scheduler_loop(Falhas) ==
    \/ sched_acorda
    \/ sched_empresa
    \/ \E falha \in Falhas : sched_lembretes(falha)
    \/ sched_lembretes_save
    \/ sched_lembretes_load
    \/ \E falha \in Falhas : sched_before(falha)
    \/ \E falha \in Falhas : sched_limpar(falha)
    \/ sched_limpar_save
    \/ \E falha \in Falhas : sched_after(falha)

\* the reservations and payments of the chats, served by handler 2, and the
\* clock
Chats ==
    \/ \E a \in ArgsCriar : Len(ledger) < MaxRows /\ criar_pre_agendamento(2, a)
    \/ \E i \in Ids : confirmar_pagamento(2, i)
    \/ PassoConc(2)
    \/ TickAny

NextSched == _scheduler_loop(BOOLEAN) \/ Chats

\* the agenda of the tenant answers every call
NextSchedOk == _scheduler_loop({FALSE}) \/ Chats

InitSched ==
    /\ LedgerIdle
    /\ fluxo_usuario = <<>>
    /\ \E cfg \in CfgsSched :
          req = [pc |-> "sleep", cfg |-> cfg, i |-> 0, visitados |-> <<>>, falhou |-> "",
                 sw |-> <<>>, pend_before |-> {},
                 _reminded_expiring |-> [e \in config_empresas(cfg) |-> {}],
                 _notified_expired |-> [e \in config_empresas(cfg) |-> {}],
                 lembretes |-> [i \in Ids |-> 0],
                 avisos |-> [i \in Ids |-> 0]]

SpecSched == InitSched /\ [][NextSched]_vars

\* the scheduler thread keeps running
SpecSchedFair == SpecSched /\ WF_vars(_scheduler_loop(BOOLEAN))

\* the thread keeps running and no call of the agenda raises
SpecSchedOk == InitSched /\ [][NextSchedOk]_vars /\ WF_vars(_scheduler_loop({FALSE}))

----------------------------------------------------------------------------
(* services/pagamentos.py: the external_reference of a charge.  A JSON text
   is a sequence of characters; the name of a key is a single symbol.  The
   free texts a chat types (its name) and the chat id are strings over a
   letter, the quote and the backslash; the reservation ids are the texts
   of the ids of the ledger. *)

MaxRef == 2         \* longest free text of a request body

Letras == { "a", "\"", "\\" }

RECURSIVE TextosAte(_)
TextosAte(n) ==
    IF n = 0 THEN { <<>> }
    ELSE TextosAte(n - 1) \cup
         { Append(s, c) : s \in { t \in TextosAte(n - 1) : Len(t) = n - 1 }, c \in Letras }

Textos == TextosAte(MaxRef)

Digitos == << "0", "1", "2", "3", "4", "5", "6", "7", "8", "9" >>

\* json.loads(ItensJSON) and float(Total) of the first row of that id
obter_snapshot(agendamento_id) ==
    LET rows == { i \in DOMAIN ledger : ledger[i].AgendamentoID = agendamento_id }
    IN  IF rows = {} THEN None
        ELSE LET row == ledger[CHOOSE i \in rows : \A j \in rows : i <= j]
             IN  [itens |-> row.ItensJSON, total |-> row.Total]

\* the text of a generated id (agenda.py lines 65-66)
IdTexto(i) == << "A", Digitos[i + 1] >>

\* the id of the ledger an id text names, if any
IdDe(texto) ==
    IF \E i \in Ids : IdTexto(i) = texto THEN CHOOSE i \in Ids : IdTexto(i) = texto
    ELSE None

\* json.dumps of a str that leaves the quote and the backslash as they are
encode_basestring_sem_escape(s) == s

\* json.dumps of a str, between the quotes: the quote and the backslash are
\* escaped with a backslash
RECURSIVE encode_basestring(_)
encode_basestring(s) ==
    IF s = <<>> THEN <<>>
    ELSE (IF Head(s) \in { "\"", "\\" } THEN << "\\", Head(s) >> ELSE << Head(s) >>)
           \o encode_basestring(Tail(s))

RECURSIVE Dec(_)
Dec(n) == IF n < 10 THEN << Digitos[n + 1] >>
          ELSE Append(Dec(n \div 10), Digitos[(n % 10) + 1])

\* float.__repr__ of an amount of whole cents: the shortest decimal text
float_repr(c) ==
    Dec(c \div 100) \o << "." >> \o
        (IF c % 10 = 0 THEN << Digitos[((c % 100) \div 10) + 1] >>
         ELSE << Digitos[((c % 100) \div 10) + 1], Digitos[(c % 10) + 1] >>)

\* json.dumps of a str or of a float
dumps_valor(x) ==
    IF x.t = "str" THEN << "\"" >> \o encode_basestring(x.v) \o << "\"" >>
    ELSE float_repr(x.v)

\* json.dumps of a dict given as its items in order: {"k": v, "k": v}
RECURSIVE dumps_items(_)
dumps_items(items) ==
    IF items = <<>> THEN <<>>
    ELSE << "\"", Head(items)[1], "\"", ":", " " >> \o dumps_valor(Head(items)[2])
           \o (IF Len(items) > 1 THEN << ",", " " >> ELSE <<>>)
           \o dumps_items(Tail(items))

dumps(items) == << "{" >> \o dumps_items(items) \o << "}" >>

\* a scan that failed
Erro == [ok |-> FALSE]

RECURSIVE skip_ws(_, _)
skip_ws(t, i) == IF i <= Len(t) /\ t[i] = " " THEN skip_ws(t, i + 1) ELSE i

\* json.decoder.scanstring from the character after the opening quote
RECURSIVE scanstring(_, _, _)
scanstring(t, i, acc) ==
    IF i > Len(t) THEN Erro
    ELSE IF t[i] = "\"" THEN [ok |-> TRUE, v |-> acc, i |-> i + 1]
    ELSE IF t[i] = "\\"
         THEN IF i + 1 <= Len(t) /\ t[i + 1] \in { "\"", "\\" }
              THEN scanstring(t, i + 2, Append(acc, t[i + 1]))
              ELSE Erro
    ELSE scanstring(t, i + 1, Append(acc, t[i]))

EhDigito(ch) == \E d \in DOMAIN Digitos : Digitos[d] = ch
ValorDigito(ch) == (CHOOSE d \in DOMAIN Digitos : Digitos[d] = ch) - 1

\* the digits from position i on: their value and how many they are
RECURSIVE scan_digitos(_, _, _, _)
scan_digitos(t, i, n, k) ==
    IF i <= Len(t) /\ EhDigito(t[i])
    THEN scan_digitos(t, i + 1, n * 10 + ValorDigito(t[i]), k + 1)
    ELSE [v |-> n, k |-> k, i |-> i]

\* float() of digits "." digits with at most two decimals, in cents
scan_float(t, i) ==
    LET w == scan_digitos(t, i, 0, 0)
    IN  IF w.k = 0 \/ w.i > Len(t) \/ t[w.i] # "." THEN Erro
        ELSE LET f == scan_digitos(t, w.i + 1, 0, 0)
             IN  IF f.k = 0 \/ f.k > 2 THEN Erro
                 ELSE [ok |-> TRUE, i |-> f.i,
                       v |-> JNum(w.v * 100 + (IF f.k = 1 THEN f.v * 10 ELSE f.v))]

\* a value: a string or a number
scan_valor(t, i) ==
    IF i > Len(t) THEN Erro
    ELSE IF t[i] = "\""
         THEN LET r == scanstring(t, i + 1, <<>>)
              IN  IF r.ok THEN [ok |-> TRUE, i |-> r.i, v |-> JStr(r.v)] ELSE Erro
    ELSE scan_float(t, i)

\* json.decoder.JSONObject after "{": the members up to "}"; a key given
\* twice keeps its last value
RECURSIVE scan_members(_, _, _)
scan_members(t, i, f) ==
    IF i > Len(t) \/ t[i] # "\"" THEN Erro
    ELSE LET k == scanstring(t, i + 1, <<>>)
         IN  IF ~ k.ok \/ Len(k.v) # 1 THEN Erro
             ELSE LET c == skip_ws(t, k.i)
                  IN  IF c > Len(t) \/ t[c] # ":" THEN Erro
                      ELSE LET x == scan_valor(t, skip_ws(t, c + 1))
                           IN  IF ~ x.ok THEN Erro
                               ELSE LET g == [j \in (DOMAIN f) \cup { k.v[1] } |->
                                                   IF j = k.v[1] THEN x.v ELSE f[j]]
                                        e == skip_ws(t, x.i)
                                    IN  IF e > Len(t) THEN Erro
                                        ELSE IF t[e] = "}"
                                             THEN [ok |-> TRUE, i |-> e + 1, v |-> JObj(g)]
                                        ELSE IF t[e] = ","
                                             THEN scan_members(t, skip_ws(t, e + 1), g)
                                        ELSE Erro

\* json.loads of a text that holds an object; JRaise stands for the
\* JSONDecodeError
loads(t) ==
    LET a == skip_ws(t, 1)
    IN  IF a > Len(t) \/ t[a] # "{" THEN JRaise
        ELSE LET b == skip_ws(t, a + 1)
             IN  IF b <= Len(t) /\ t[b] = "}"
                 THEN (IF skip_ws(t, b + 1) > Len(t) THEN JEmpty ELSE JRaise)
                 ELSE LET r == scan_members(t, b, <<>>)
                      IN  IF r.ok /\ skip_ws(t, r.i) > Len(t) THEN r.v ELSE JRaise

\* the ledger has a row of that id
TemLinha(id) == \E i \in DOMAIN ledger : ledger[i].AgendamentoID = id

\* lines 181-186 of _process_approved_for_empresa and lines 509-519 of
\* mp_create_pix: the items are those of the snapshot of the reservation
itens_do_snapshot(agendamento_id) ==
    IF agendamento_id.t # "str" \/ ~ TemLinha(IdDe(agendamento_id.v)) THEN <<>>
    ELSE obter_snapshot(IdDe(agendamento_id.v)).itens

\* lines 537-547 of mp_create_pix
external_reference(empresa, b, servico_label, total) ==
    dumps(<< << "empresa", JStr(<< empresa >>) >>,
             << "agendamento_id", JStr(b.agendamento_id) >>,
             << "chat_id", JStr(b.chat_id) >>,
             << "nome", JStr(b.nome) >>,
             << "insta", JStr(<<>>) >>,
             << "data", JStr(<< "d" >>) >>,
             << "horario", JStr(<< "h" >>) >>,
             << "servico", JStr(servico_label) >>,
             << "total", JNum(total) >> >>)

\* lines 484-547: the request of the flow for the reservation it has just
\* made (fluxo.py lines 668-680), so that the slot test of lines 497-506
\* passes; the label is the titles of the items
mp_create_pix ==
    /\ req.pc = "body"
    /\ LET b == req.body
           itens == itens_do_snapshot(JStr(b.agendamento_id))
           total == IF itens # <<>> THEN obter_snapshot(IdDe(b.agendamento_id)).total ELSE 0
       IN  req' = IF b.agendamento_id = <<>> \/ b.chat_id = <<>>
                  THEN [req EXCEPT !.pc = "fim", !.status = 400]
                  ELSE IF itens = <<>> \/ total <= 0
                  THEN [req EXCEPT !.pc = "fim", !.status = 400]
                  ELSE [req EXCEPT !.pc = "cobrado", !.status = 200,
                                   !.itens = itens, !.total = total,
                                   !.external_reference =
                                       external_reference(req.empresa, b, << "s" >>, total)]
    /\ UNCHANGED <<ledgerVars, fluxo_usuario>>

\* lines 150-175: what _process_approved_for_empresa takes from the payment
\* of an approved charge that the route of a tenant received
_process_approved_for_empresa ==
    /\ req.pc = "cobrado"
    /\ \E rota \in { "empresa1", "empresa2" } :
          LET p == loads(req.external_reference)
              pld == IF p.t = "raise" THEN JEmpty ELSE p
          IN  req' = IF get(pld, "empresa") # JStr(<< rota >>)
                     THEN [req EXCEPT !.pc = "fim", !.rota = rota]
                     ELSE [req EXCEPT !.pc = "aprovado", !.rota = rota, !.pld = pld,
                              !.lido = [empresa |-> rota,
                                        agendamento_id |-> get(pld, "agendamento_id"),
                                        chat_id |-> get(pld, "chat_id"),
                                        total |-> Or(get(pld, "total"), JNum(0)),
                                        itens |-> itens_do_snapshot(get(pld, "agendamento_id"))]]
    /\ UNCHANGED <<ledgerVars, fluxo_usuario>>

NextReferencia == mp_create_pix \/ _process_approved_for_empresa

InitReferencia ==
    /\ now = 0
    /\ proc = [p \in Procs |-> IdleProc]
    /\ fluxo_usuario = <<>>
    /\ \E a \in ArgsCriarDe(ItemLists) : a.horario = 1 /\ ledger = << NovoPendente(a, 0) >>
    /\ \E ag \in { <<>>, IdTexto(1), IdTexto(2) }, chat \in Textos, nome \in Textos :
          req = [pc |-> "body", empresa |-> "empresa1", rota |-> "", status |-> 0,
                 body |-> [agendamento_id |-> ag, chat_id |-> chat, nome |-> nome],
                 itens |-> <<>>, total |-> 0, external_reference |-> <<>>,
                 pld |-> JEmpty, lido |-> <<>>]

SpecReferencia == InitReferencia /\ [][NextReferencia]_vars

----------------------------------------------------------------------------
(* services/pagamentos.py: the approved payment of a reservation, notified
   to mp_webhook_empresa or mp_webhook_generic any number of times.  Each
   delivery is served by a handler of its own; the load of
   confirmar_pagamento and its save are separate steps. *)

\* lines 172-179: altered = agenda.confirmar_pagamento(agendamento_id)
aprovado_confirma(p, agendamento_id) == confirmar_pagamento(p, agendamento_id)

\* lines 213-234: the message goes out if the call altered the ledger (the
\* reference of a charge always holds a chat id); the handler answers 200
aprovado_envia(p) ==
    /\ proc[p].pc = "done"
    /\ proc[p].op = "confirmar_pagamento"
    /\ req' = IF proc[p].ret = "True"
              THEN [req EXCEPT !.enviados[proc[p].arg.id] = @ + 1]
              ELSE req
    /\ proc' = [proc EXCEPT ![p] = IdleProc]
    /\ UNCHANGED <<ledger, now, fluxo_usuario>>

NextAprovado ==
    \E p \in Procs :
        \/ \E i \in Ids : aprovado_confirma(p, i)
        \/ status_save(p)
        \/ aprovado_envia(p)

\* the ledger holds the reservations that wait for their payment, each with
\* an id and a slot of its own
InitAprovado ==
    /\ now = 0
    /\ proc = [p \in Procs |-> IdleProc]
    /\ fluxo_usuario = <<>>
    /\ req = [pc |-> "mp", enviados |-> [i \in Ids |-> 0]]
    /\ \E a \in ArgsCriar, b \in ArgsCriar :
          /\ a.horario < b.horario
          /\ a.id # b.id
          /\ ledger \in { << NovoPendente(a, 0) >>,
                          << NovoPendente(a, 0), NovoPendente(b, 0) >> }

SpecAprovado == InitAprovado /\ [][NextAprovado]_vars

----------------------------------------------------------------------------
(* app.py: webhook_dinamico, the route /webhook/<empresa>.  A text of one
   word is the message of that word. *)

Palavra(texto) == IF Len(texto) = 1 THEN texto[1] ELSE "??"

\* lines 436-440, the legacy layout: chat_id and texto of payload["payload"]
legado_chat(p) ==
    IF IsObj(p) THEN Or(Or(get(p, "from"), get(p, "chatId")), get(p, "chat_id")) ELSE JNull

legado_texto(p) ==
    IF IsObj(p) THEN Or(Or(Or(get(p, "body"), get(p, "text")), get(p, "message")), JStr(<<>>))
    ELSE JStr(<<>>)

\* line 443: _normalize_chat_id(chat_id or payload chat_id or payload chatId)
simples_chat(payload, chat0) ==
    IF Or(Or(chat0, get(payload, "chat_id")), get(payload, "chatId")).t = "null" THEN <<>>
    ELSE _normalize_chat_id(str(Or(Or(chat0, get(payload, "chat_id")), get(payload, "chatId"))))

\* line 444, before .strip()
simples_texto(payload, texto0) ==
    Or(Or(Or(Or(texto0, get(payload, "text")), get(payload, "message")),
          get(payload, "body")), JStr(<<>>))

\* lines 446-465, with the chat id and the text the view goes on with
responde_dinamico(cfg, empresa, from_me, chat_id, texto, fu, env) ==
    IF from_me THEN Resposta(200, "none", FALSE, fu)
    ELSE IF chat_id = <<>> \/ texto = <<>> THEN Resposta(200, "none", FALSE, fu)
    ELSE IF _is_group(chat_id) THEN Resposta(200, "none", FALSE, fu)
    ELSE IF empresa \notin config_empresas(cfg) THEN Resposta(404, "none", FALSE, fu)
    ELSE _dispatch_to_flow(cfg, empresa, chat_id, Palavra(texto), fu, env)

\* lines 446-453: the extractor is used when the simple reading found no
\* chat id or no text
com_extrator(cfg, empresa, ex, fu, env) ==
    IF ex.raised THEN [Resposta(500, "none", TRUE, fu) EXCEPT !.propagou = TRUE]
    ELSE responde_dinamico(cfg, empresa, ex.fields.from_me, ex.fields.chat_id,
                           ex.fields.msg, fu, env)

lido_dinamico(cfg, empresa, payload, chat1, texto1v, fu, env) ==
    IF texto1v.t # "str" THEN [Resposta(500, "none", TRUE, fu) EXCEPT !.propagou = TRUE]
    ELSE IF chat1 = <<>> \/ strip(texto1v.v) = <<>>
    THEN com_extrator(cfg, empresa, _extract_message_fields(payload), fu, env)
    ELSE responde_dinamico(cfg, empresa, FALSE, chat1, strip(texto1v.v), fu, env)

\* lines 427-465; an exception that leaves the view is answered 500 by Flask
webhook_dinamico(cfg, empresa, json, fu, env) ==
    IF ~ IsObj(Or(json, JEmpty))
    THEN [Resposta(500, "none", TRUE, fu) EXCEPT !.propagou = TRUE]
    ELSE lido_dinamico(cfg, empresa, Or(json, JEmpty),
             simples_chat(Or(json, JEmpty), legado_chat(get(Or(json, JEmpty), "payload"))),
             simples_texto(Or(json, JEmpty), legado_texto(get(Or(json, JEmpty), "payload"))),
             fu, env)

\* the senders and the texts of the requests to the route
SendersDin == { << "5", "@c.us" >>, << "+", "5" >>, ChatGrupo }
TextsDin == { << "menu" >>, << "ajuda", " " >>, << " " >> }

\* the request of a message the bot itself sent
DoBot == JObj(("from" :> JStr(ChatCliente)) @@ ("body" :> JStr(<< "menu" >>))
                @@ ("fromMe" :> JBool(TRUE)))

\* the layouts of the requests to the route
ShapesDin == { "flat", "chatId_text", "payload", "conversation" }

\* the response to a request, kept with the layout that was asked
Respondido(empresa, forma, r) ==
    /\ \A e \in DOMAIN r.fu : \A c \in DOMAIN r.fu[e] : Len(r.fu[e][c].pilha) <= MaxPilha
    /\ fluxo_usuario' = r.fu
    /\ req' = [pc |-> "respondido", cfg |-> req.cfg, empresa |-> empresa, forma |-> forma,
               status |-> r.status, invoked |-> r.invoked, raised |-> r.raised]
    /\ UNCHANGED ledgerVars

\* one request to /webhook/<empresa>, served to its response
rota_webhook_dinamico ==
    \E empresa \in { "empresa1", "empresa2" }, env \in WebEnvs :
        \/ \E shape \in ShapesDin, sender \in SendersDin, text \in TextsDin :
              Respondido(empresa, shape,
                  webhook_dinamico(req.cfg, empresa, Payload(shape, sender, text),
                                   fluxo_usuario, env))
        \/ \E i \in DOMAIN Malformed :
              Respondido(empresa, "malformed",
                  webhook_dinamico(req.cfg, empresa, Malformed[i], fluxo_usuario, env))
        \/ Respondido(empresa, "fromMe",
              webhook_dinamico(req.cfg, empresa, DoBot, fluxo_usuario, env))

InitDinamico ==
    /\ LedgerIdle
    /\ \E cfg \in { CfgSolo, CfgShared } :
          /\ req = [pc |-> "idle", cfg |-> cfg]
          /\ fluxo_usuario = [e \in config_empresas(cfg) |-> <<>>]

SpecDinamico == InitDinamico /\ [][rota_webhook_dinamico]_vars

----------------------------------------------------------------------------
(* app.py: the conversations of two tenants while messages of customers and
   of administrators are dispatched and the scheduler thread runs.  req
   holds the thread's position and, in web, the last message dispatched. *)

ChatCliente2 == << "5", "5", "5", "@c.us" >>

MsgsQuadro == { "menu", "ver horarios" }

\* one message handed to _dispatch_to_flow for a tenant and a chat
mensagem_despachada ==
    \E empresa \in config_empresas(req.cfg), chat_id \in { ChatCliente, ChatCliente2, ChatAdmin },
       msg \in MsgsQuadro, env \in WebEnvs :
        LET r == _dispatch_to_flow(req.cfg, empresa, chat_id, msg, fluxo_usuario, env)
        IN  /\ \A e \in DOMAIN r.fu : \A c \in DOMAIN r.fu[e] :
                  Len(r.fu[e][c].pilha) <= MaxPilha
            /\ fluxo_usuario' = r.fu
            /\ req' = [req EXCEPT !.web =
                         [tipo |-> IF chat_id \in admins_por_empresa(empresa)
                                   THEN "admin" ELSE "cliente",
                          empresa |-> empresa, chat_id |-> chat_id]]
            /\ UNCHANGED ledgerVars

NextQuadro == mensagem_despachada \/ _scheduler_loop({FALSE}) \/ TickAny

\* one reservation waits for its payment when the thread starts
InitQuadro ==
    /\ now = 0
    /\ proc = [p \in Procs |-> IdleProc]
    /\ \E a \in ArgsCriar : a.id = 1 /\ a.horario = 1 /\ ledger = << NovoPendente(a, 0) >>
    /\ fluxo_usuario = [e \in config_empresas(CfgShared) |-> <<>>]
    /\ req = [pc |-> "sleep", cfg |-> CfgShared, i |-> 0, visitados |-> <<>>, falhou |-> "",
              sw |-> <<>>, pend_before |-> {},
              _reminded_expiring |-> [e \in config_empresas(CfgShared) |-> {}],
              _notified_expired |-> [e \in config_empresas(CfgShared) |-> {}],
              lembretes |-> [i \in Ids |-> 0],
              avisos |-> [i \in Ids |-> 0],
              web |-> [tipo |-> "none", empresa |-> "", chat_id |-> <<>>]]

SpecQuadro == InitQuadro /\ [][NextQuadro]_vars

----------------------------------------------------------------------------
(* agenda.py: salvar_agendamentos and its backups.  req holds the backup
   directory, a function from the file name (the second of the write) to
   the frame written, and the number of writes made. *)

\* lines 100-108: backup_<%Y%m%d_%H%M%S>.xlsx, then the spreadsheet; the
\* frame is that of the save the handler is at
salvar_agendamentos(p) ==
    /\ proc[p].pc \in { "limpar_save", "reservar_save", "status_save" }
    /\ LET pr == proc[p]
           df == CASE pr.pc = "limpar_save" -> pr.sw
                   [] pr.pc = "reservar_save" -> Append(pr.df, NovoPendente(pr.arg, now))
                   [] OTHER -> pr.df
       IN  /\ ledger' = df
           /\ req' = [req EXCEPT !.backups = (_fmt_ts(now) :> df) @@ @,
                                 !.escritas = @ + 1]
           /\ proc' = [proc EXCEPT ![p] =
                         IF pr.pc = "limpar_save" THEN DepoisDeLimpar(pr)
                         ELSE Termina(pr, "True")]
    /\ UNCHANGED <<now, fluxo_usuario>>

\* one handler, run to its end before the next call
NextBackup ==
    \/ limpar_expirados(1)
    \/ \E a \in ArgsCriar : Len(ledger) < MaxRows /\ criar_pre_agendamento(1, a)
    \/ \E i \in Ids : confirmar_pagamento(1, i)
    \/ limpar_load(1)
    \/ disponivel(1)
    \/ salvar_agendamentos(1)
    \/ Return(1)
    \/ Tick

InitBackup ==
    /\ ledger = <<>>
    /\ now = 0
    /\ proc = [p \in Procs |-> IdleProc]
    /\ fluxo_usuario = <<>>
    /\ req = [pc |-> "backup", backups |-> <<>>, escritas |-> 0]

SpecBackup == InitBackup /\ [][NextBackup]_vars

----------------------------------------------------------------------------
(* fluxo.py: the back command in the booking dialogue.  req remembers, for
   the stage the conversation is in, the stage it was in immediately before
   it entered it ("" after a back or a reset, and at the start). *)

\* one message of the customer; origem follows the changes of stage
mensagem_com_origem ==
    /\ \E msg \in Msgs, env \in { e \in Envs : ~ e.falha } :
          LET estado == _get(fluxo_usuario, ChatCliente)
              r == processar(estado, msg, env)
          IN  /\ Len(r.estado.pilha) <= MaxPilha
              /\ fluxo_usuario' = (ChatCliente :> r.estado) @@ fluxo_usuario
              /\ req' = [pc |-> "processar",
                         voltar |-> msg = "voltar",
                         de |-> estado.etapa,
                         origem_antes |-> req.origem,
                         origem |-> IF _is_universal(msg) \in { "menu", "voltar", "cancelar",
                                                                "atendente" }
                                    THEN ""
                                    ELSE IF r.estado.etapa # estado.etapa THEN estado.etapa
                                    ELSE req.origem]
    /\ UNCHANGED ledgerVars

InitVoltar ==
    /\ LedgerIdle
    /\ fluxo_usuario = <<>>
    /\ req = [pc |-> "idle", voltar |-> FALSE, de |-> "menu", origem_antes |-> "",
              origem |-> ""]

SpecVoltar == InitVoltar /\ [][mensagem_com_origem]_vars

----------------------------------------------------------------------------
(* app.py: the chat id the two webhook routes hand to the flow, for the
   sender as the request carries it.  The payloads carry no session, owner
   or empresa key. *)

\* lines 387-424: waha_webhook on the JSON of a request
waha_webhook_json(cfg, q, json, fu, env) ==
    LET ex == _extract_message_fields(json)
    IN  IF ex.raised THEN [Resposta(500, "none", TRUE, fu) EXCEPT !.propagou = TRUE]
        ELSE Webhook(cfg, q, "",
                     [chat_id |-> ex.fields.chat_id,
                      msg |-> IF ex.fields.msg = <<>> THEN "" ELSE Palavra(ex.fields.msg),
                      from_me |-> ex.fields.from_me, empresa_hint |-> "", session |-> "",
                      owner |-> <<>>, to |-> ex.fields.to],
                     fu, env).r

\* the sender as WhatsApp clients write it
SendersChat == { << "5", "@c.us" >>, << "5", "@s.whatsapp.net" >>, << "+", "5" >>,
                 << "5", "5", "5" >> }

\* the response to a request, kept with the raw sender and the chats that
\* had a conversation before it
RespondidoChat(rota, empresa, sender, r) ==
    /\ \A e \in DOMAIN r.fu : \A c \in DOMAIN r.fu[e] : Len(r.fu[e][c].pilha) <= MaxPilha
    /\ fluxo_usuario' = r.fu
    /\ req' = [pc |-> "respondido", cfg |-> req.cfg, rota |-> rota, empresa |-> empresa,
               sender |-> sender, chaves |-> DOMAIN fluxo_usuario[empresa],
               status |-> r.status, invoked |-> r.invoked]
    /\ UNCHANGED ledgerVars

rota_waha_chat ==
    \E shape \in ShapesDin, sender \in SendersChat, text \in { << "menu" >> },
       env \in WebEnvs :
        RespondidoChat("waha", "empresa1", sender,
            waha_webhook_json(req.cfg, "empresa1", Payload(shape, sender, text),
                              fluxo_usuario, env))

rota_dinamico_chat ==
    \E shape \in ShapesDin, sender \in SendersChat, text \in { << "menu" >> },
       env \in WebEnvs :
        RespondidoChat("dinamico", "empresa1", sender,
            webhook_dinamico(req.cfg, "empresa1", Payload(shape, sender, text),
                             fluxo_usuario, env))

InitChat ==
    /\ LedgerIdle
    /\ req = [pc |-> "idle", cfg |-> CfgShared]
    /\ fluxo_usuario = [e \in config_empresas(CfgShared) |-> <<>>]

SpecChat == InitChat /\ [][rota_waha_chat \/ rota_dinamico_chat]_vars

----------------------------------------------------------------------------
(* fluxo.py: the booking dialogue of one chat over the ledger.  A message
   that reaches line 594 is served in steps, one for each access to the
   ledger file; every other message is served in one step.  req keeps what
   the message found: the stage, the number typed, whether the context had a
   date, whether the catalogue priced the cart, what horario_disponivel
   answered; ultima is the id of the last reservation created for the chat
   and refere the id a payment command looked up. *)

MsgsSlot == { "agendar", "1", "10", "pronto", "pular", "12/06", "status", "reenviar pix" }

\* int(msg_norm), None for ValueError
int(msg) == CASE msg = "1" -> 1 [] msg = "4" -> 4 [] msg = "10" -> 10 [] OTHER -> None

\* ctx.get("ultimo_agendamento_id")
ultimo_agendamento_id(estado) ==
    IF "ultimo_agendamento_id" \in DOMAIN estado THEN estado.ultimo_agendamento_id ELSE None

\* lines 636-643: the id and the PIX payload are stored in the context
guarda_ultimo(estado, a) ==
    [etapa |-> estado.etapa, pilha |-> estado.pilha, servicos |-> estado.servicos,
     data |-> estado.data, ultimo_agendamento_id |-> a.id,
     ultimo_pix_payload |-> [data |-> a.data, horario |-> a.horario]]

\* lines 305-592: the message passes the universal commands, the payment
\* commands and the menu triggers, the stage is solicitar_horario, the text
\* is a number of the list and the context has a date
ChegaAoHorario(estado, msg) ==
    /\ _is_universal(msg) = ""
    /\ msg \notin { "status", "reenviar pix" }
    /\ msg \notin TEXTUAL_TRIGGERS
    /\ estado.etapa = "solicitar_horario"
    /\ int(msg) # None
    /\ int(msg) \in BLOCOS_HORARIOS
    /\ estado.data

\* the ledger after a message that lists the free slots (line 561) or asks
\* for the PIX again (line 380): both begin with limpar_expirados
AposListar(estado, msg) ==
    IF \/ estado.etapa = "solicitar_data" /\ _parse_data(msg) /\ _is_universal(msg) = ""
       \/ msg = "reenviar pix" /\ ultimo_agendamento_id(estado) # None
    THEN MarcaExpirados(ledger, now) ELSE ledger

\* a message arrives; horario_disponivel of line 594 is entered, or the
\* message is answered
slot_recebe ==
    /\ req.pc \in { "idle", "respondido" }
    /\ proc[1].pc = "idle"
    /\ \E msg \in MsgsSlot, itens \in BOOLEAN :
          LET estado == _get(fluxo_usuario, ChatCliente)
              visto == [req EXCEPT !.msg = msg, !.de = estado.etapa, !.indice = int(msg),
                                   !.data = estado.data, !.livre = FALSE,
                                   !.itens = itens /\ estado.etapa = "solicitar_horario",
                                   !.refere = IF msg \in { "status", "reenviar pix" }
                                              THEN ultimo_agendamento_id(estado) ELSE None]
          IN  IF ChegaAoHorario(estado, msg)
              THEN /\ Len(ledger) < MaxRows
                   /\ proc' = [proc EXCEPT ![1] =
                         CarregaLimpa(Entra("horario_disponivel",
                             [NoArg EXCEPT !.data = 1, !.horario = int(msg)]))]
                   /\ req' = [visto EXCEPT !.pc = "verificando"]
                   /\ UNCHANGED <<ledger, fluxo_usuario>>
              ELSE /\ fluxo_usuario' =
                         (ChatCliente :>
                             processar(estado, msg,
                                 [livre |-> FALSE, itens |-> itens, falha |-> FALSE]).estado)
                         @@ fluxo_usuario
                   /\ Len(fluxo_usuario'[ChatCliente].pilha) <= MaxPilha
                   /\ ledger' = AposListar(estado, msg)
                   /\ req' = [visto EXCEPT !.pc = "respondido"]
                   /\ UNCHANGED proc
    /\ UNCHANGED now

\* slot_reserva without the test of line 613
slot_reserva_sem_itens ==
    /\ req.pc = "verificando"
    /\ proc[1].pc = "done" /\ proc[1].op = "horario_disponivel" /\ proc[1].ret = "True"
    /\ \E i \in _gen_id \ { ledger[j].AgendamentoID : j \in DOMAIN ledger } :
          LET a == [id |-> i, data |-> proc[1].arg.data, horario |-> proc[1].arg.horario,
                    itens |-> << Item35 >>, total |-> _sum_itens_total(<< Item35 >>),
                    ttl_min |-> 1]
          IN  proc' = [proc EXCEPT ![1] =
                 [Entra("criar_pre_agendamento", a) EXCEPT !.df = ledger, !.pc = "limpar_load"]]
    /\ req' = [req EXCEPT !.pc = "reservando", !.livre = proc[1].ret = "True"]
    /\ UNCHANGED <<ledger, now, fluxo_usuario>>

\* lines 594-630: the slot was reported free and the cart has a priced item:
\* criar_pre_agendamento is entered with an id uuid4 has not given yet
slot_reserva ==
    /\ req.pc = "verificando"
    /\ proc[1].pc = "done" /\ proc[1].op = "horario_disponivel" /\ proc[1].ret = "True"
    /\ req.itens
    /\ \E i \in _gen_id \ { ledger[j].AgendamentoID : j \in DOMAIN ledger } :
          LET a == [id |-> i, data |-> proc[1].arg.data, horario |-> proc[1].arg.horario,
                    itens |-> << Item35 >>, total |-> _sum_itens_total(<< Item35 >>),
                    ttl_min |-> 1]
          IN  proc' = [proc EXCEPT ![1] =
                 [Entra("criar_pre_agendamento", a) EXCEPT !.df = ledger, !.pc = "limpar_load"]]
    /\ req' = [req EXCEPT !.pc = "reservando", !.livre = proc[1].ret = "True"]
    /\ UNCHANGED <<ledger, now, fluxo_usuario>>

\* the end of the request: the re-prompt of lines 595-599, the refusal of
\* lines 613-615, or, with the reservation made, lines 636-643 and the
\* _reset of line 711 (RuntimeError of agenda.py line 256 leaves processar)
slot_responde ==
    /\ req.pc \in { "verificando", "reservando" }
    /\ proc[1].pc = "done"
    /\ \/ proc[1].op = "horario_disponivel" /\ (proc[1].ret = "False" \/ ~ req.itens)
       \/ proc[1].op = "criar_pre_agendamento"
    /\ LET estado == _get(fluxo_usuario, ChatCliente)
           criou == proc[1].op = "criar_pre_agendamento" /\ proc[1].ret = "True"
           r == processar(estado, req.msg,
                          [livre |-> proc[1].op = "criar_pre_agendamento",
                           itens |-> req.itens, falha |-> proc[1].ret = "RuntimeError"])
       IN  /\ fluxo_usuario' =
                 (ChatCliente :> IF criou THEN _reset(guarda_ultimo(estado, proc[1].arg))
                                 ELSE r.estado) @@ fluxo_usuario
           /\ req' = [req EXCEPT !.pc = "respondido",
                                 !.ultima = IF criou THEN proc[1].arg.id ELSE @]
    /\ proc' = [proc EXCEPT ![1] = IdleProc]
    /\ UNCHANGED <<ledger, now>>

NextSlot ==
    \/ slot_recebe
    \/ slot_reserva
    \/ slot_responde
    \/ limpar_load(1)
    \/ limpar_save(1)
    \/ disponivel(1)
    \/ reservar_save(1)
    \/ Tick

\* the ledger is empty or holds the reservation of another chat
InitSlot ==
    /\ now = 0
    /\ proc = [p \in Procs |-> IdleProc]
    /\ fluxo_usuario = <<>>
    /\ req = [pc |-> "idle", msg |-> "", de |-> "menu", indice |-> None, data |-> FALSE,
              itens |-> FALSE, livre |-> FALSE, ultima |-> None, refere |-> None]
    /\ \E a \in ArgsCriar : ledger \in { <<>>, << NovoPendente(a, 0) >> }

SpecSlot == InitSlot /\ [][NextSlot]_vars

----------------------------------------------------------------------------
(* agenda.py: concurrent handlers with sweeps that keep occurring.  Each
   handler reserves with an id of its own, every call that was entered runs
   to its return, and limpar_expirados is called again and again (by a slot
   query, a reminder query or a tick of the scheduler). *)

varredura == \E p \in Procs : limpar_expirados(p)

NextVarredura ==
    \/ varredura
    \/ \E p \in Procs :
          \/ \E a \in ArgsCriar :
                a.id = p /\ Len(ledger) < MaxRows /\ criar_pre_agendamento(p, a)
          \/ PassoConc(p)
    \/ \E i \in Ids : confirmar_pagamento(1, i)
    \/ TickAny

SpecVarredura ==
    /\ InitConc
    /\ [][NextVarredura]_vars
    /\ \A p \in Procs : WF_vars(PassoConc(p))
    /\ SF_vars(varredura)

----------------------------------------------------------------------------
(* app.py: the filters of the two webhook routes.  A request carries a
   sender, a text and the fromMe flag in one of the layouts; req keeps what
   the request was and what the route answered. *)

\* the message object of a request with its fromMe flag
ComFromMe(m, from_me) ==
    IF from_me THEN JObj(("fromMe" :> JBool(TRUE)) @@ m.v) ELSE m

\* the layouts: the flat ones and the legacy one, with the flag beside the
\* sender and the text
PayloadFiltro(shape, sender, text, from_me) ==
    CASE shape = "flat" -> ComFromMe(Flat(sender, text), from_me)
      [] shape = "chatId_text" ->
            ComFromMe(Obj2("chatId", JStr(sender), "text", JStr(text)), from_me)
      [] OTHER ->
            Obj2("event", JStr(<< "a" >>), "payload", ComFromMe(Flat(sender, text), from_me))

SendersFiltro == { ChatCliente, ChatGrupo, <<>> }
TextsFiltro == { << "menu" >>, << "agendar" >>, << " " >> }

\* the response to a request, kept with what the request was
RespondidoFiltro(rota, shape, sender, text, from_me, r) ==
    /\ \A e \in DOMAIN r.fu : \A c \in DOMAIN r.fu[e] : Len(r.fu[e][c].pilha) <= MaxPilha
    /\ fluxo_usuario' = r.fu
    /\ req' = [pc |-> "respondido", cfg |-> req.cfg, rota |-> rota, forma |-> shape,
               from_me |-> from_me, grupo |-> _is_group(sender),
               vazio |-> sender = <<>> \/ strip(text) = <<>>,
               status |-> r.status, invoked |-> r.invoked,
               mudou |-> r.fu # fluxo_usuario]
    /\ UNCHANGED ledgerVars

rota_waha_filtro ==
    \E shape \in { "flat", "chatId_text", "payload" }, sender \in SendersFiltro,
       text \in TextsFiltro, from_me \in BOOLEAN, env \in WebEnvs :
        RespondidoFiltro("waha", shape, sender, text, from_me,
            waha_webhook_json(req.cfg, "empresa1",
                              PayloadFiltro(shape, sender, text, from_me), fluxo_usuario, env))

rota_dinamico_filtro ==
    \E shape \in { "flat", "chatId_text", "payload" }, sender \in SendersFiltro,
       text \in TextsFiltro, from_me \in BOOLEAN, env \in WebEnvs :
        RespondidoFiltro("dinamico", shape, sender, text, from_me,
            webhook_dinamico(req.cfg, "empresa1",
                             PayloadFiltro(shape, sender, text, from_me), fluxo_usuario, env))

SpecFiltro == InitChat /\ [][rota_waha_filtro \/ rota_dinamico_filtro]_vars

----------------------------------------------------------------------------
(* services/pagamentos.py: a notification of Mercado Pago served by handler
   1, from the fetch of the payment to the answer, while handler 2 serves
   the reservation of a chat.  The ledger is the file of empresa1, the
   tenant that has an agenda module; req holds the payment that was fetched
   and the tenant of the route. *)

\* lines 351-370 and 386-425: the payment the route fetched, with its status
\* and the external reference mp_create_pix gave the charge
mp_webhook_empresa ==
    /\ req.pc = "mp"
    /\ proc[1].pc = "idle"
    /\ \E rota \in { "empresa1", "empresa2" }, status \in { "approved", "pending" },
          empresa \in { "empresa1", "empresa2", "" }, i \in Ids :
          req' = [pc |-> "payment", rota |-> rota, status |-> status, empresa |-> empresa,
                  agendamento_id |-> i]
    /\ UNCHANGED <<ledgerVars, fluxo_usuario>>

\* lines 150-165: the payment goes on to confirmar_pagamento
Aprovado(r) ==
    /\ TemAgenda(r.rota)
    /\ r.status = "approved"
    /\ r.empresa = r.rota

\* lines 172-179: agenda.confirmar_pagamento(agendamento_id)
aprovado_para_empresa ==
    /\ req.pc = "payment"
    /\ Aprovado(req)
    /\ confirmar_pagamento(1, req.agendamento_id)

\* the answer of the route: after confirmar_pagamento returned, or at once
\* for a payment that is not approved or names another tenant
mp_webhook_responde ==
    /\ req.pc = "payment"
    /\ IF Aprovado(req) THEN proc[1].pc = "done" ELSE proc[1].pc = "idle"
    /\ req' = [req EXCEPT !.pc = "mp"]
    /\ proc' = [proc EXCEPT ![1] = IdleProc]
    /\ UNCHANGED <<ledger, now, fluxo_usuario>>

NextPagamento ==
    \/ mp_webhook_empresa
    \/ aprovado_para_empresa
    \/ status_save(1)
    \/ mp_webhook_responde
    \/ \E a \in ArgsCriar :
          /\ Len(ledger) < MaxRows
          /\ \A j \in DOMAIN ledger : ledger[j].AgendamentoID # a.id
          /\ criar_pre_agendamento(2, a)
    \/ limpar_load(2)
    \/ disponivel(2)
    \/ reservar_save(2)
    \/ Return(2)

\* the ledger holds a reservation that waits for its payment
InitPagamento ==
    /\ now = 0
    /\ proc = [p \in Procs |-> IdleProc]
    /\ fluxo_usuario = <<>>
    /\ req = [pc |-> "mp", rota |-> "", status |-> "", empresa |-> "", agendamento_id |-> 1]
    /\ \E a \in ArgsCriar : ledger = << NovoPendente(a, 0) >>

SpecPagamento == InitPagamento /\ [][NextPagamento]_vars

----------------------------------------------------------------------------
(* agenda.py: concurrent reserve calls for different slots.  Handler p
   reserves the slot p with the id p, beside the sweeps of the scheduler;
   loads and saves interleave freely. *)

NextReservas ==
    \/ \E p \in Procs :
          \/ \E a \in ArgsCriar :
                /\ a.id = p
                /\ a.horario = p
                /\ \A j \in DOMAIN ledger : ledger[j].AgendamentoID # p
                /\ criar_pre_agendamento(p, a)
          \/ limpar_expirados(p)
          \/ limpar_load(p)
          \/ limpar_save(p)
          \/ disponivel(p)
          \/ reservar_save(p)
          \/ Return(p)
    \/ TickAny

SpecReservas == InitConc /\ [][NextReservas]_vars

----------------------------------------------------------------------------
(* Properties *)

Ativo(r) == r.Status \in {"Pendente", "Confirmado"}

MesmoHorario(r, q) == r.Data = q.Data /\ r.Horario = q.Horario

Exclusivo(l) ==
    \A i, j \in DOMAIN l :
        (i # j /\ MesmoHorario(l[i], l[j])) => ~ (Ativo(l[i]) /\ Ativo(l[j]))

IdsDistintos(l) ==
    \A i, j \in DOMAIN l : i # j => l[i].AgendamentoID # l[j].AgendamentoID

\* C1: after any sequence of ledger operations run one at a time, with the
\* clock moving between them, no two rows of the same (date, slot) are
\* Pending or Confirmed.  (Read on files whose ids are all distinct, so that
\* a failure owes nothing to a repeated id.)
C1_SlotExclusivity == (AllIdle /\ IdsDistintos(ledger)) => Exclusivo(ledger)

Reserva(pr) == pr.op \in {"reservar_pendente", "criar_pre_agendamento"}

\* C2: when the reserve calls of all handlers for one (date, slot) overlap
\* (each found the file empty), exactly one of them succeeds and the file
\* ends with exactly one Pending row for that slot.
C2_ExactlyOneReserveSucceeds ==
    ( /\ \A p \in Procs : proc[p].pc = "done" /\ Reserva(proc[p]) /\ proc[p].pre = <<>>
      /\ \A p, q \in Procs : /\ proc[p].arg.data = proc[q].arg.data
                              /\ proc[p].arg.horario = proc[q].arg.horario
                              /\ (p # q => proc[p].arg.id # proc[q].arg.id) )
    => /\ Cardinality({p \in Procs : proc[p].ret = "True"}) = 1
       /\ Cardinality({i \in DOMAIN ledger :
                          /\ ledger[i].Status = "Pendente"
                          /\ ledger[i].Data = proc[1].arg.data
                          /\ ledger[i].Horario = proc[1].arg.horario}) = 1

Terminal(r) == r.Status \in {"Confirmado", "Expirado"}

\* C3: with operations run one at a time, a row that is Confirmed or Expired
\* in one state of the file has the same status in the next.  (Read on
\* files whose ids are all distinct.)
C3_TerminalIsFinal ==
    [][\A i \in DOMAIN ledger :
          (Terminal(ledger[i]) /\ IdsDistintos(ledger')) =>
              /\ i \in DOMAIN ledger'
              /\ ledger'[i].AgendamentoID = ledger[i].AgendamentoID
              /\ ledger'[i].Status = ledger[i].Status]_vars

\* C4: under any interleaving of the loads and saves of reserve, confirm and
\* expireStale, a row saved as Confirmed is Confirmed in every later state
\* of the file.  (Read on files whose ids are all distinct.)
C4_ConfirmedNeverLost ==
    [][\A i \in DOMAIN ledger :
          (ledger[i].Status = "Confirmado" /\ IdsDistintos(ledger')) =>
              /\ i \in DOMAIN ledger'
              /\ ledger'[i].AgendamentoID = ledger[i].AgendamentoID
              /\ ledger'[i].Status = "Confirmado"]_vars

\* the handlers that have returned from op
Feito(p, op) == proc[p].pc = "done" /\ proc[p].op = op

\* Expira_em (whole seconds) lies before the clock
Vencido(r) == r.Expira_em # None /\ r.Expira_em * TicksPerSec < now

\* C5: confirm(id) returns true exactly when a row of that id is Pending, and
\* then turns exactly those rows to Confirmed; on an id that is Confirmed
\* (a further confirm), Expired, Cancelled or unknown it returns false and
\* leaves the whole file unchanged; after any confirm(id) no row of that id
\* is Pending, so a row goes from Pending to Confirmed at most once.
C5_ConfirmIdempotent ==
    \A p \in Procs : Feito(p, "confirmar_pagamento") =>
        LET pre == proc[p].pre
            id  == proc[p].arg.id
            pend(r) == r.AgendamentoID = id /\ r.Status = "Pendente"
            tinha == \E i \in DOMAIN pre : pend(pre[i])
        IN  /\ proc[p].ret = IF tinha THEN "True" ELSE "False"
            /\ DOMAIN ledger = DOMAIN pre
            /\ \A i \in DOMAIN pre :
                  ledger[i] = IF pend(pre[i]) THEN [pre[i] EXCEPT !.Status = "Confirmado"]
                              ELSE pre[i]
            /\ ~ \E i \in DOMAIN ledger : pend(ledger[i])
            /\ ~ tinha => ledger = pre

\* a further confirm of a Confirmed reservation has returned False
C5_Witness ==
    \E p \in Procs :
        /\ Feito(p, "confirmar_pagamento")
        /\ proc[p].ret = "False"
        /\ \E i \in DOMAIN ledger : /\ ledger[i].AgendamentoID = proc[p].arg.id
                                      /\ ledger[i].Status = "Confirmado"
                                      /\ ledger[i].Expira_em # None

\* C6: horario_disponivel(slot, date) returns true exactly when no row of
\* that (date, slot) is Confirmed or is Pending with expiresAt not before
\* now, and it leaves every Pending row whose expiresAt is before now
\* Expired; a Pending reservation whose TTL has elapsed does not block.
C6_IsSlotFree ==
    \A p \in Procs : Feito(p, "horario_disponivel") =>
        LET pre == proc[p].pre
            a   == proc[p].arg
            segura(r) == /\ r.Data = a.data /\ r.Horario = a.horario
                         /\ \/ r.Status = "Confirmado"
                            \/ r.Status = "Pendente" /\ ~ Vencido(r)
        IN  /\ proc[p].ret = IF \E i \in DOMAIN pre : segura(pre[i]) THEN "False" ELSE "True"
            /\ \A i \in DOMAIN ledger : ~ (ledger[i].Status = "Pendente" /\ Vencido(ledger[i]))

\* the slot of a Pending reservation whose TTL has elapsed was reported free
C6_Witness ==
    \E p \in Procs :
        /\ Feito(p, "horario_disponivel")
        /\ proc[p].ret = "True"
        /\ \E i \in DOMAIN proc[p].pre :
              /\ proc[p].pre[i].Status = "Pendente"
              /\ proc[p].pre[i].Data = proc[p].arg.data
              /\ proc[p].pre[i].Horario = proc[p].arg.horario

\* C7: limpar_expirados turns every Pending row with expiresAt < now to
\* Expired and changes nothing else: Confirmed, Cancelled and Expired rows
\* and Pending rows with expiresAt >= now are as before, and no row is added
\* or removed.
C7_ExpireStaleFrame ==
    \A p \in Procs : Feito(p, "limpar_expirados") =>
        LET pre == proc[p].pre
        IN  /\ DOMAIN ledger = DOMAIN pre
            /\ \A i \in DOMAIN pre :
                  ledger[i] = IF pre[i].Status = "Pendente" /\ Vencido(pre[i])
                              THEN [pre[i] EXCEPT !.Status = "Expirado"]
                              ELSE pre[i]

\* a sweep expired one row beside a Confirmed row
C7_Witness ==
    \E p \in Procs :
        /\ Feito(p, "limpar_expirados")
        /\ \E i, j \in DOMAIN ledger :
              /\ proc[p].pre[i].Status = "Pendente"
              /\ ledger[i].Status = "Expirado"
              /\ ledger[j].Status = "Confirmado"

\* the return of a reserve that found the slot taken
Recusa(pr) == IF pr.op = "criar_pre_agendamento" THEN "RuntimeError" ELSE "False"

\* r holds the slot of a: Confirmed, or Pending with its TTL not elapsed
Segura(r, a) ==
    /\ r.Data = a.data /\ r.Horario = a.horario
    /\ \/ r.Status = "Confirmado"
       \/ r.Status = "Pendente" /\ ~ Vencido(r)

\* l is pre plus one Pending row for a, expiring at now + ttl; expiresAt is
\* compared in the whole seconds the file keeps
MaisUmPendente(l, pre, a) ==
    /\ Len(l) = Len(pre) + 1
    /\ \A i \in DOMAIN pre : l[i] = pre[i]
    /\ LET n == l[Len(l)]
       IN  /\ n.Status = "Pendente"
           /\ n.AgendamentoID = a.id /\ n.Data = a.data /\ n.Horario = a.horario
           /\ n.Expira_em = (now + a.ttl_min * SecPerMin * TicksPerSec) \div TicksPerSec

\* C8 as stated: a reserve on a held (date, slot) fails, adds no row and
\* changes no existing row; a reserve on a free slot adds exactly one Pending
\* row with expiresAt = now + ttl (in the whole seconds Expira_em keeps).
C8_ReserveAsStated ==
    \A p \in Procs : (proc[p].pc = "done" /\ Reserva(proc[p])) =>
        LET pre == proc[p].pre
            a   == proc[p].arg
        IN  IF \E i \in DOMAIN pre : Segura(pre[i], a)
            THEN proc[p].ret = Recusa(proc[p]) /\ ledger = pre
            ELSE proc[p].ret = "True" /\ MaisUmPendente(ledger, pre, a)

\* C8 amended: a failed reserve adds no row and changes no existing row
\* other than turning the Pending rows whose expiresAt is before now to
\* Expired; a reserve on a free slot adds exactly one Pending row with
\* expiresAt = now + ttl (in the whole seconds Expira_em keeps).
C8_ReserveAmended ==
    \A p \in Procs : (proc[p].pc = "done" /\ Reserva(proc[p])) =>
        LET pre == proc[p].pre
            a   == proc[p].arg
        IN  IF \E i \in DOMAIN pre : Segura(pre[i], a)
            THEN /\ proc[p].ret = Recusa(proc[p])
                 /\ DOMAIN ledger = DOMAIN pre
                 /\ \A i \in DOMAIN pre :
                       ledger[i] = IF pre[i].Status = "Pendente" /\ Vencido(pre[i])
                                   THEN [pre[i] EXCEPT !.Status = "Expirado"]
                                   ELSE pre[i]
            ELSE proc[p].ret = "True" /\ MaisUmPendente(ledger, pre, a)

\* a refused reserve has swept a stale row of another slot
C8_Witness ==
    \E p \in Procs :
        /\ proc[p].pc = "done" /\ Reserva(proc[p])
        /\ proc[p].ret = Recusa(proc[p])
        /\ ledger # proc[p].pre

\* C9: no two rows of the file carry the same AgendamentoID, whatever
\* sequence of criar_pre_agendamento, reservar_pendente and
\* registrar_agendamento calls produced them.
C9_IdsUnique == IdsDistintos(ledger)

\* C10: every row's Total is the sum of unit_price * quantity over its own
\* ItensJSON, rounded to 2 decimals, whichever entry point created the row.
C10_TotalIsSum ==
    \A i \in DOMAIN ledger : ledger[i].Total = _sum_itens_total(ledger[i].ItensJSON)

\* thousandths rounded half-up to cents
HalfUp(m) == (m + 5) \div 10

\* C11: the total stored for a reservation made from line items is their sum
\* rounded half-up to 2 decimals (50.005 gives 50.01, 0.125 gives 0.13), and
\* the total shown to the customer is the text of that same value.
C11_TotalHalfUp ==
    \A p \in Procs : (Feito(p, "criar_pre_agendamento") /\ proc[p].ret = "True") =>
        LET itens == proc[p].arg.itens
            row   == ledger[Len(ledger)]
        IN  /\ row.Total = HalfUp(SumItens(itens))
            /\ _fmt_brl_local(total_local(itens)) = _fmt_brl_local(row.Total)

\* C12: for every reservation in the file, made with line items L and total
\* T, the snapshot of its id is L and T, whatever was reserved, confirmed or
\* expired since.
C12_SnapshotIsCaptured ==
    \A i \in DOMAIN ledger : ledger[i].Expira_em # None =>
        obter_snapshot(ledger[i].AgendamentoID) =
            [itens |-> ledger[i].ItensJSON, total |-> ledger[i].Total]

\* C16: for the same sender and the same text, every supported layout gives
\* the same chat id (the sender, with @s.whatsapp.net turned to @c.us) and
\* the same text (stripped).
C16_SameFieldsAllShapes ==
    (req.pc = "extraido" /\ req.shape \in Shapes) =>
        /\ ~ req.ret.raised
        /\ req.ret.fields.chat_id =
              IF endswith(req.sender, "@s.whatsapp.net")
              THEN << req.sender[1], "@c.us" >> ELSE req.sender
        /\ req.ret.fields.msg = strip(req.text)

\* the sender and the text were read from key.remoteJid and the nested
\* extendedTextMessage of a messages list at the root
C16_Witness ==
    /\ req.pc = "extraido"
    /\ req.shape = "extendedTextMessage"
    /\ req.sender = << "5", "@s.whatsapp.net" >>
    /\ req.ret.fields.chat_id = << "5", "@c.us" >>

\* C17: the extraction never raises, whatever JSON the request carries.
C17_ExtractNeverRaises ==
    req.pc = "extraido" => ~ req.ret.raised

\* the webhook passed the filters and reached the resolver
Resolvido == req.pc = "respondido" /\ req.resolvido

\* the resolver returned a tenant and _dispatch_to_flow was called
Despachado == Resolvido /\ req.empresa # NoTenant

\* C14: a tenant the resolver returns is one of the configured tenants; when
\* no rule matches the webhook is answered 400, no entry point is invoked and
\* no conversation state is created or changed.
C14_UnresolvedRejected ==
    Resolvido =>
        IF req.empresa # NoTenant THEN req.empresa \in config_empresas(req.cfg)
        ELSE /\ req.status = 400
             /\ req.invoked = "none"
             /\ fluxo_usuario = req.antes

\* a webhook no rule resolves was answered 400 while a conversation was open
C14_Witness ==
    /\ Resolvido
    /\ req.empresa = NoTenant
    /\ req.status = 400
    /\ \E e \in DOMAIN fluxo_usuario : fluxo_usuario[e] # <<>>

\* C15: canonicalize(canonicalize(x)) = canonicalize(x) for every identifier
\* x: several leading "+", blanks after the "+", no digits, a domain suffix.
C15_NormalizeIdempotent ==
    req.pc = "retorno" => _normalize_chat_id(req.ret) = req.ret

\* the rules of the resolver, in order: whether each matches and the tenant it names
Regras(r) ==
    LET known   == config_empresas(r.cfg)
        mapped  == empresa_por_session(r.cfg, r.fields.session)
        owner   == _normalize_chat_id(r.fields.owner)
        to      == _normalize_chat_id(r.fields.to)
        indexed(n) == \E i \in DOMAIN r.cfg : _normalize_chat_id(r.cfg[i].waha_number) = n
        only(S) == IF S = {} THEN NoTenant ELSE CHOOSE e \in S : TRUE
    IN  << [hit |-> r.q \in known, tenant |-> r.q],
           [hit |-> r.h \in known, tenant |-> r.h],
           [hit |-> r.fields.empresa_hint \in known, tenant |-> r.fields.empresa_hint],
           [hit |-> Cardinality(mapped) = 1, tenant |-> only(mapped)],
           [hit |-> owner # <<>> /\ indexed(owner),
            tenant |-> IF indexed(owner) THEN empresa_por_numero_bot(r.cfg, owner) ELSE NoTenant],
           [hit |-> to # <<>> /\ indexed(to),
            tenant |-> IF indexed(to) THEN empresa_por_numero_bot(r.cfg, to) ELSE NoTenant],
           [hit |-> Cardinality(known) = 1, tenant |-> only(known)],
           [hit |-> "empresa1" \in known, tenant |-> "empresa1"] >>

\* C13: the resolver returns the tenant of the first rule that matches, in
\* the order query, header, payload hint, unambiguous session, owner in the
\* bot-number index, to in the index, the only tenant, the default tenant;
\* and no tenant when none matches.
C13_FirstMatchWins ==
    req.pc = "resolvido" =>
        LET rs   == Regras(req)
            hits == { i \in DOMAIN rs : rs[i].hit }
        IN  IF hits = {} THEN req.empresa = NoTenant
            ELSE req.empresa = rs[CHOOSE i \in hits : \A j \in hits : i <= j].tenant

\* owner and to are in the index under different tenants, no earlier rule
\* matches, and the owner's tenant was returned
C13_Witness ==
    /\ req.pc = "resolvido"
    /\ LET rs == Regras(req)
       IN  /\ \A i \in 1..4 : ~ rs[i].hit
           /\ rs[5].hit /\ rs[6].hit
           /\ rs[5].tenant # rs[6].tenant
           /\ req.empresa = rs[5].tenant

\* C18 as stated: every dispatched message invokes exactly one entry point,
\* processar_admin if and only if the chat id is in the tenant's admin set,
\* processar otherwise.
C18_ExactlyOneEntryPoint ==
    Despachado =>
        req.invoked = IF req.fields.chat_id \in admins_por_empresa(req.empresa)
                      THEN "processar_admin" ELSE "processar"

\* C18 amended: a dispatched message invokes at most one entry point,
\* processar_admin only for a chat id of the tenant's admin set and processar
\* only for another; it invokes that one when the tenant has a WAHA client
\* and its flow module imports and defines it, and otherwise none, and the
\* answer is 500.
C18_AtMostOneEntryPoint ==
    Despachado =>
        LET admin  == req.fields.chat_id \in admins_por_empresa(req.empresa)
            modulo == importlib(req.cfg, req.empresa)
            pronto == /\ req.empresa \in waha_clients(req.cfg)
                      /\ modulo.import = "ok"
                      /\ IF admin THEN modulo.processar_admin ELSE modulo.processar
        IN  /\ req.invoked = "processar_admin" => admin
            /\ req.invoked = "processar" => ~ admin
            /\ IF pronto THEN req.invoked # "none"
               ELSE req.invoked = "none" /\ req.status = 500

\* an admin's message to a tenant whose module has no processar_admin was
\* answered 500 and reached no entry point
C18_Witness ==
    /\ Despachado
    /\ req.fields.chat_id \in admins_por_empresa(req.empresa)
    /\ importlib(req.cfg, req.empresa) = ModFluxo
    /\ req.invoked = "none"
    /\ req.status = 500

\* C19: an exception raised inside a tenant's entry point is answered with a
\* 500 by _dispatch_to_flow and never leaves the webhook handler, which goes
\* on serving the webhooks that follow.
C19_FlowExceptionCaught ==
    /\ ~ req.propagou
    /\ (req.pc = "respondido" /\ req.raised) => req.status = 500

\* the webhook after one whose flow raised was dispatched and answered 200
C19_Witness ==
    /\ req.pc = "respondido"
    /\ req.anterior
    /\ req.invoked = "processar"
    /\ req.status = 200

\* C20: in every conversation state the stage is one processar has a branch
\* for, and the stage stack does not hold the current stage.
C20_StageInvariant ==
    \A c \in DOMAIN fluxo_usuario :
        /\ fluxo_usuario[c].etapa \in Etapas
        /\ \A i \in DOMAIN fluxo_usuario[c].pilha :
              fluxo_usuario[c].pilha[i] # fluxo_usuario[c].etapa

\* C21: after menu, cancelar or atendente, sent in any state of the
\* conversation, the stage is menu, the context and the stack are empty,
\* and the answer is the one of the universal command.
C21_UniversalReset ==
    (req.pc = "processar" /\ req.msg \in {"menu", "cancelar", "atendente"}) =>
        /\ fluxo_usuario[ChatCliente] = Estado0
        /\ ~ req.raised
        /\ req.envio \in {"menu", "Fluxo cancelado", "Atendente"}

\* cancelar arrived while the time slot was being asked, with a cart, a
\* date and a stack
C21_Witness ==
    /\ req.pc = "processar"
    /\ req.msg = "cancelar"
    /\ req.de = "solicitar_horario"
    /\ fluxo_usuario[ChatCliente] = Estado0

\* C22: voltar with a stack sets the stage to the top frame and removes that
\* frame only, the context staying as it was; with an empty stack nothing
\* changes and the answer is the "already at the start" box.
C22_BackPopsOneFrame ==
    [][ (req'.pc = "processar" /\ req'.msg = "voltar") =>
          LET s == _get(fluxo_usuario, ChatCliente)
              t == fluxo_usuario'[ChatCliente]
          IN  IF s.pilha # <<>>
              THEN /\ t.etapa = s.pilha[Len(s.pilha)]
                   /\ t.pilha = SubSeq(s.pilha, 1, Len(s.pilha) - 1)
                   /\ t.servicos = s.servicos
                   /\ t.data = s.data
                   /\ req'.envio = "Voltar"
              ELSE /\ t = s
                   /\ req'.envio = "Inicio" ]_vars

\* voltar took one frame off a stack of two
C22_Witness ==
    /\ req.pc = "processar"
    /\ req.msg = "voltar"
    /\ req.envio = "Voltar"
    /\ fluxo_usuario[ChatCliente].etapa = "ver_horarios_listar"
    /\ fluxo_usuario[ChatCliente].pilha = << "menu" >>

\* C23: when the chosen slot was free at the flow's check and is taken by
\* another chat before the reservation is made, the user is asked again, the
\* conversation stays in the slot stage and the webhook does not answer 500.
C23_RaceLostReprompts ==
    (req.pc = "respondido" /\ req.livre /\ req.reserva = "RuntimeError") =>
        /\ req.reprompt
        /\ fluxo_usuario["empresa1"][ChatCliente].etapa = "solicitar_horario"
        /\ req.status # 500

\* C24: for each reservation id the scheduler sends at most one reminder and
\* at most one expiry notice, over any number of passes, failed sends and
\* changes of status.
C24_AtMostOnce ==
    req.pc \in {"sleep", "empresa", "lembretes", "lembretes_save", "lembretes_load",
                "before", "limpar", "limpar_save", "after"} =>
        \A i \in Ids : req.lembretes[i] <= 1 /\ req.avisos[i] <= 1

\* an id was reminded and notified, a new reservation of that id is about
\* to expire, and the pass has just gone over the candidates
C24_Witness ==
    /\ req.pc = "before"
    /\ \E i \in Ids :
          /\ req.lembretes[i] = 1
          /\ req.avisos[i] = 1
          /\ i \in PrestesAExpirar(ledger, now)

\* C25: a reservation whose TTL has elapsed while it is Pending is
\* eventually sent the expiry notice by the running scheduler.
C25_ExpiryEventuallyNotified ==
    \A i \in Ids :
        [](  (\E k \in DOMAIN ledger : ledger[k].AgendamentoID = i /\ Expirou(ledger[k], now))
             => <>(req.avisos[i] > 0) )

\* C26: a pass that ends has gone over every tenant of the configuration,
\* whatever failed for the tenants before, and every pass ends.
C26_PassVisitsAll ==
    /\ [](req.pc = "sleep" /\ req.i > 0 =>
            req.visitados = [k \in DOMAIN req.cfg |-> req.cfg[k].nome])
    /\ (req.pc = "empresa" ~> req.pc = "sleep")

\* the reminder query of the first tenant failed and the pass went on to
\* the second
C26_Witness ==
    /\ req.pc = "sleep"
    /\ req.cfg = CfgShared
    /\ req.falhou = "empresa1"
    /\ req.visitados = << "empresa1", "empresa2" >>

\* C27 as stated: the reference of a charge carries the tenant id, the
\* reservation id, the chat id, the line items and the total, and the
\* handler of the approved payment has exactly those values from parsing it.
C27_ReferenceAsStated ==
    req.pc = "aprovado" =>
        /\ { "empresa", "agendamento_id", "chat_id", "itens", "total" } \subseteq DOMAIN req.pld.v
        /\ req.lido = [empresa |-> req.empresa,
                       agendamento_id |-> JStr(req.body.agendamento_id),
                       chat_id |-> JStr(req.body.chat_id),
                       total |-> JNum(req.total),
                       itens |-> req.itens]

\* C27: the reference of a charge carries the tenant id, the reservation id,
\* the chat id and the total, and no line items; the handler of the tenant's
\* route parses every reference and has exactly those four values from it.
C27_ReferenceRoundTrip ==
    /\ req.pc = "aprovado" =>
          /\ DOMAIN req.pld.v = { "empresa", "agendamento_id", "chat_id", "nome", "insta",
                                  "data", "horario", "servico", "total" }
          /\ req.lido.empresa = req.empresa
          /\ req.lido.agendamento_id = JStr(req.body.agendamento_id)
          /\ req.lido.chat_id = JStr(req.body.chat_id)
          /\ req.lido.total = JNum(req.total)
    /\ (req.pc = "fim" /\ req.status = 200) => req.rota # req.empresa

\* a charge whose chat id and customer name hold a quote and a backslash and
\* whose total has cents went through the handler
C27_Witness ==
    /\ req.pc = "aprovado"
    /\ req.body.chat_id = << "\"", "\\" >>
    /\ req.body.nome = << "\\", "\"" >>
    /\ req.total % 100 # 0
    /\ req.itens # <<>>

\* C28: for each reservation id the 'payment approved' message is sent at
\* most once, however many handlers are given the approved payment and
\* however their steps interleave.
C28_ApprovedSentOnce ==
    \A i \in Ids : req.enviados[i] <= 1

\* C29: a request to /webhook/<empresa> for a tenant that is not configured
\* is answered 404 and no entry point of a flow is invoked, whatever the
\* payload.
C29_UnknownTenant404 ==
    (req.pc = "respondido" /\ req.empresa \notin config_empresas(req.cfg)) =>
        req.status = 404 /\ req.invoked = "none"

\* the conversation of chat c of tenant e is not what it was before the step
Mudou(e, c) ==
    \/ e \notin DOMAIN fluxo_usuario
    \/ c \notin DOMAIN fluxo_usuario[e]
    \/ fluxo_usuario'[e][c] # fluxo_usuario[e][c]

\* C30: a step changes the conversation of (e, c) only if it is the dispatch
\* of a customer's message for tenant e and chat c; no conversation is
\* removed; a message of an administrator, a step of the scheduler and the
\* clock change no conversation.
C30_OnlyOwnConversation ==
    [][ /\ DOMAIN fluxo_usuario \subseteq DOMAIN fluxo_usuario'
        /\ \A e \in DOMAIN fluxo_usuario : DOMAIN fluxo_usuario[e] \subseteq DOMAIN fluxo_usuario'[e]
        /\ \A e \in DOMAIN fluxo_usuario' : \A c \in DOMAIN fluxo_usuario'[e] :
              Mudou(e, c) =>
                  /\ req'.web.tipo = "cliente"
                  /\ req'.web.empresa = e
                  /\ req'.web.chat_id = c
                  /\ [req' EXCEPT !.web = req.web] = req
                  /\ UNCHANGED ledgerVars ]_vars

\* a customer's message has just moved its conversation off the menu while
\* another chat of the tenant and a chat of the other tenant hold a
\* conversation, an administrator has none, and the scheduler is in a pass
C30_Witness ==
    /\ req.web.tipo = "cliente"
    /\ req.web.empresa = "empresa1"
    /\ req.web.chat_id = ChatCliente
    /\ req.pc = "after"
    /\ fluxo_usuario["empresa1"][ChatCliente].etapa # "menu"
    /\ ChatCliente2 \in DOMAIN fluxo_usuario["empresa1"]
    /\ fluxo_usuario["empresa1"][ChatCliente2].etapa = "menu"
    /\ ChatCliente2 \in DOMAIN fluxo_usuario["empresa2"]
    /\ fluxo_usuario["empresa2"][ChatCliente2].etapa # "menu"
    /\ ChatAdmin \notin DOMAIN fluxo_usuario["empresa2"]

\* C31: after k writes of the ledger the backup directory holds k backups.
C31_BackupPerWrite ==
    Cardinality(DOMAIN req.backups) = req.escritas

\* C32: after the back command in a stage of the booking dialogue, the
\* conversation is in the stage it was in immediately before it entered
\* that stage.
C32_BackToPreviousStage ==
    (/\ req.pc = "processar"
     /\ req.voltar
     /\ req.origem_antes # ""
     /\ req.de \in { "selecionar_servicos", "solicitar_nome", "solicitar_insta",
                     "solicitar_data", "solicitar_horario" }) =>
        fluxo_usuario[ChatCliente].etapa = req.origem_antes

\* C33: on both webhook routes the chat id handed to the flow is
\* _normalize_chat_id of the raw sender: after a request that reached
\* processar, the conversations of the tenant are those it had before and
\* the one keyed by the canonical id.
C33_CanonicalChatId ==
    (req.pc = "respondido" /\ req.invoked = "processar") =>
        DOMAIN fluxo_usuario[req.empresa] = req.chaves \cup { _normalize_chat_id(req.sender) }

\* C34: the flow adds a row to the ledger only for a message received in
\* solicitar_horario whose number is within the slot list, with a date in
\* the context, a slot horario_disponivel reported free while the message
\* was served and a priced item in the cart; when one of these fails the
\* ledger gets no row.
C34_ReserveOnlyChecked ==
    [][Len(ledger') > Len(ledger) =>
          /\ req.pc = "reservando"
          /\ req.de = "solicitar_horario"
          /\ req.indice \in BLOCOS_HORARIOS
          /\ req.data
          /\ req.livre
          /\ req.itens
          /\ ledger'[Len(ledger')].Horario = req.indice]_vars

C34_Witness ==
    /\ req.pc = "respondido"
    /\ req.de = "solicitar_horario"
    /\ req.ultima # None
    /\ \E i \in DOMAIN ledger : ledger[i].AgendamentoID = req.ultima

\* C37: a status or reenviar pix command sent after the chat's reservation
\* was created looks up that reservation: the context holds its id.
C37_PaymentCommandsKeepReservation ==
    (req.pc = "respondido" /\ req.msg \in { "status", "reenviar pix" } /\ req.ultima # None) =>
        req.refere = req.ultima

\* a reservation of the ledger that is Pending after its Expira_em
PendenteVencida(i) ==
    \E j \in DOMAIN ledger : ledger[j].AgendamentoID = i /\ Expirou(ledger[j], now)

Resolvida(i) ==
    \E j \in DOMAIN ledger :
        ledger[j].AgendamentoID = i /\ ledger[j].Status \in { "Confirmado", "Expirado" }

\* C35: while sweeps keep occurring, a reservation that is Pending after its
\* Expira_em is eventually Confirmed or Expired.
C35_PendingEventuallyResolved ==
    \A i \in Ids : PendenteVencida(i) ~> Resolvida(i)

\* C36: on both routes a message flagged fromMe, a message of a group and a
\* message without chat id or without text are answered 200, reach no flow
\* and leave every conversation as it was.
C36_FilteredIgnored ==
    (req.pc = "respondido" /\ (req.from_me \/ req.grupo \/ req.vazio)) =>
        /\ req.status = 200
        /\ req.invoked = "none"
        /\ ~ req.mudou

\* the rows of b are those of a, but for the status of the rows of an id
SoStatusDe(a, b, agendamento_id) ==
    /\ Len(a) = Len(b)
    /\ \A i \in DOMAIN a :
          IF a[i].AgendamentoID = agendamento_id
          THEN b[i] = [a[i] EXCEPT !.Status = b[i].Status]
          ELSE b[i] = a[i]

\* C38: a step of the payment webhook changes the ledger only for a payment
\* that is approved and whose external reference names the tenant of the
\* route, and then only in the status of the reservation it references.
C38_PaymentFrame ==
    [][(proc'[1] # proc[1] /\ ledger' # ledger) =>
          /\ req.status = "approved"
          /\ req.empresa = req.rota
          /\ SoStatusDe(ledger, ledger', req.agendamento_id)]_vars

\* C39: with concurrent reserve calls for different slots, the row a
\* successful call saved is in the ledger in every later state: no save
\* removes a reservation.
C39_NoReservationDropped ==
    [][\A j \in DOMAIN ledger :
          \E k \in DOMAIN ledger' :
              /\ ledger'[k].AgendamentoID = ledger[j].AgendamentoID
              /\ ledger'[k].Data = ledger[j].Data
              /\ ledger'[k].Horario = ledger[j].Horario]_vars

====
